---- MODULE Spec2Model ----
(***************************************************************************)
(* State-machine model of the screenshot capture orchestrator              *)
(* (EnhancedScreenshotCapture) and of the multi-model dispatcher           *)
(* (MultiModelAIService + RateLimiter) of v0-ui-reviewer-cli.              *)
(***************************************************************************)
EXTENDS Integers, Sequences, FiniteSets, TLC

(***************************************************************************)
(* Bounds of the model.                                                    *)
(***************************************************************************)
\* largest retry budget (options.retries) a capture call is started with
MaxRetries == 4
\* number of clock advances in one behaviour of the dispatcher
MaxTicks == 3
\* number of chat calls in one behaviour of the dispatcher
MaxCalls == 2
MaxUrls == 2
MaxReviews == 3

VARIABLES
    \* ---- capture orchestrator --------------------------------------------
    variant,       \* which of the two capture sources runs: "recovering" | "plain"
    retries,       \* options.retries
    outputPath,    \* TRUE iff options.outputPath is given
    cpc,           \* position inside captureWithRetry / captureScreenshot
    attempt,       \* loop variable of captureWithRetry
    strategy,      \* strategy selected for the running attempt
    browsers,      \* number of browser instances currently open
    launches,      \* number of puppeteer.launch calls made so far
    attempts,      \* CaptureAttempt records of the finished attempts
    navError,      \* error caught from page.goto, while it is being recovered
    navSeen,       \* the rejected page.goto of the running attempt: its error,
                   \* and whether document.body.innerText was non-empty then
    pending,       \* error travelling through the finally block, or "none"
    attemptError,  \* error raised by the most recent failed attempt
    lastError,     \* captureWithRetry's local lastError
    elapsed,       \* ms spent in the orchestrator's own timers
    backoffs,      \* the backoff delays waited so far
    shots,         \* the screenshots page.screenshot has written, in order
    shotPath,      \* screenshotPath of the running attempt
    result,        \* path returned by captureWithRetry
    thrown,        \* error thrown by captureWithRetry
    \* ---- model dispatcher and rate limiter ------------------------------
    now,           \* Date.now(), in ms since the model's epoch
    ticks,         \* number of clock advances so far
    calls,         \* number of chat calls started so far
    fileExists,    \* TRUE iff ~/.v0-reviewer/rate-limits.json can be read
    qfile,         \* content of the quota file: family -> [count, resetAt]
    dpc,           \* per caller: position inside MultiModelAIService.chat
    model,         \* per caller: the model of the running chat call
    service,       \* per caller: getServiceForModel(model)
    hasClient,     \* per caller: the service instance holds the backend's key/client
    data,          \* per caller: RateLimitData held by checkLimit / increment
    nowAt,         \* per caller: checkLimit's local `now`
    chk,           \* per caller: what checkLimit returned
    invoked,       \* per caller: backends whose network call was issued, in order
    raised,        \* per caller: the error raised inside chat, or "none"
    outcome,       \* per caller: what chat returned or threw
    pre            \* per caller: the quota data the call's checkLimit loaded

VARIABLES
    \* ---- model fallback (ModelFallback) ----------------------------------
    fbpc,          \* "ready" | "next" (getNextModel returned) | "suggested"
    fbCurrent,     \* currentModel
    fbAvailable,   \* availableModels, as the set of its elements
    fbError,       \* message of the error handed to suggestFallback
    fbNext,        \* what getNextModel returned
    fbAdvice       \* what suggestFallback printed: [hint, advice, model]

VARIABLES
    \* ---- one review: V0UIReviewerCLI.reviewURL / reviewScreenshot --------
    rpc,           \* position inside the review, "idle" when none runs
    rKind,         \* "url" (reviewURL) | "screenshot" (reviewScreenshot)
    rUrl,          \* the url argument of reviewURL
    rModel,        \* options.model
    rOut,          \* options.outputPath, or NoPath
    rShot,         \* screenshotPath
    rLaunches,     \* puppeteer.launch calls of this review
    rGotos,        \* page.goto calls of this review
    rBrowsers,     \* browsers currently open
    rPending,      \* error travelling through captureWithStyles' finally
    rEncode,       \* imageToBase64's pathToEncode
    rResized,      \* imageToBase64's resizedPath
    rQuality,      \* resizeForAPI's currentQuality
    rImage,        \* the image whose base64 went into the chat message
    rInput,        \* the file at screenshotPath when imageToBase64 was entered
    rResult,       \* how the review ended: [status, error]
    keys,          \* the backends the service holds a key / client for
    files,         \* the file system: path -> content, for the paths that exist
    tm             \* session.json and analysis.json of the TempManager

VARIABLES
    \* ---- batch review (handleBatchReview) --------------------------------
    bpc,           \* "off" | "loop" | "review" | "wait" | "end"
    burls,         \* urls: the lines of the batch file that are URLs
    bOutput,       \* options.output, or NoFilePath
    bi,            \* the loop variable i
    completed,     \* the counter `completed`
    failed,        \* the counter `failed`
    bStarted,      \* the urls whose review was started, in order
    bEnded,        \* how each review that ended did end: "ok" | "error"
    bWaited,       \* ms spent in the loop's timer since the last review ended
    bGaps          \* for each review after the first: ms waited before it started

VARIABLES
    \* ---- interactive session (SimpleInteractiveSession) ------------------
    spc,           \* "off" | "prompt" | "review" (state.isReviewing is true)
    sMode,         \* state.mode
    sUrl,          \* state.currentUrl, or NoUrl
    sModel,        \* state.model
    sLastShot,     \* state.lastScreenshot, or NoFilePath
    sReviews,      \* number of /review commands that called the reviewer
    sLast          \* the last command, when it was /review: what it found on
                   \* entry, what it did and how it ended; NoLast otherwise

VARIABLES
    \* ---- the 'line' listener of the interactive sessions ----------------
    lSession,      \* "off" | "simple" (SimpleInteractiveSession) | "v2"
    lStrict,       \* TRUE iff the runtime ends the process on an unhandled rejection
    lAlive,        \* the process is running
    isProcessing,  \* this.isProcessing
    lRunning,      \* handleInput calls that have started and not yet settled
    lLast,         \* how the last handleInput settled: "none" | "returned" | "threw"
    lLog           \* per line received, in order: "handled" | "discarded"

VARIABLES
    \* ---- design chat (DesignChatSession) --------------------------------
    dcpc,          \* "off" | "prompt" | "chat" | "analyze" | "tokens" | "exit"
    messages,      \* this.messages: [role, content, image]
    dcModel,       \* this.currentModel
    dcKeys         \* the backends the session's service holds a key / client for

captureVars == <<variant, retries, outputPath, cpc, attempt, strategy, browsers,
                 launches, attempts, navError, navSeen, pending, attemptError,
                 lastError, elapsed, backoffs, shots, shotPath, result, thrown>>

quotaVars == <<now, ticks, calls, fileExists, qfile, dpc, model, service, hasClient,
               data, nowAt, chk, invoked, raised, outcome, pre>>

fallbackVars == <<fbpc, fbCurrent, fbAvailable, fbError, fbNext, fbAdvice>>

reviewVars == <<rpc, rKind, rUrl, rModel, rOut, rShot, rLaunches, rGotos, rBrowsers,
                rPending, rEncode, rResized, rQuality, rImage, rInput, rResult,
                keys, files, tm>>

batchVars == <<bpc, burls, bOutput, bi, completed, failed, bStarted, bEnded,
               bWaited, bGaps>>

sessionVars == <<spc, sMode, sUrl, sModel, sLastShot, sReviews, sLast>>

lineVars == <<lSession, lStrict, lAlive, isProcessing, lRunning, lLast, lLog>>

chatVars == <<dcpc, messages, dcModel, dcKeys>>

vars == <<captureVars, quotaVars, fallbackVars, reviewVars, batchVars, sessionVars,
          lineVars, chatVars>>

\* everything that is not state of the capture orchestrator
notCapture == <<quotaVars, fallbackVars, reviewVars, batchVars, sessionVars,
                lineVars, chatVars>>

\* everything that is not state of the dispatcher
notQuota == <<captureVars, fallbackVars, reviewVars, batchVars, sessionVars,
              lineVars, chatVars>>

\* everything that is not state of the model fallback
notFallback == <<captureVars, quotaVars, reviewVars, batchVars, sessionVars,
                 lineVars, chatVars>>

\* everything that is not state of a review
notReview == <<captureVars, quotaVars, fallbackVars, batchVars, sessionVars,
               lineVars, chatVars>>

\* everything that is not state of the batch loop, of its review or of the
\* dispatcher
notBatch == <<captureVars, fallbackVars, sessionVars, lineVars, chatVars>>

\* everything that is not state of the session, of its review or of the
\* dispatcher
notSession == <<captureVars, fallbackVars, batchVars, lineVars, chatVars>>

\* everything that is not state of the 'line' listener
notLine == <<captureVars, quotaVars, fallbackVars, reviewVars, batchVars, sessionVars,
             chatVars>>

\* everything that is not state of the design chat or of the dispatcher
notChat == <<captureVars, fallbackVars, reviewVars, batchVars, sessionVars, lineVars>>

Min(a, b) == IF a <= b THEN a ELSE b

Max(a, b) == IF a >= b THEN a ELSE b

(***************************************************************************)
(* Capture orchestrator                                                    *)
(***************************************************************************)
Variants == {"recovering", "plain"}

\* messages of the errors the browser library raises
ErrorMessages == {"Navigation timeout exceeded", "Protocol error"}

NoError == "none"

\* a strategy list whose last strategy waits longest
StrategiesLastWaitsLongest(v) ==
    << [name |-> "Standard", waitTime |-> 2000,
        waitUntil |-> <<"networkidle0">>, browserArgs |-> <<>>],
       [name |-> "Dynamic Content", waitTime |-> 5000,
        waitUntil |-> <<"domcontentloaded">>, browserArgs |-> <<>>],
       [name |-> "SPA Mode", waitTime |-> 8000,
        waitUntil |-> <<"networkidle2">>, browserArgs |-> <<>>],
       [name |-> "Force Load", waitTime |-> 12000,
        waitUntil |-> <<"load">>, browserArgs |-> <<>>] >>

DEFAULT_RETRY_STRATEGIES(v) ==
    IF v = "recovering"
    THEN << [name |-> "Standard", waitTime |-> 2000,
             waitUntil |-> <<"networkidle0">>, browserArgs |-> <<>>],
            [name |-> "Dynamic Content", waitTime |-> 5000,
             waitUntil |-> <<"domcontentloaded">>, browserArgs |-> <<>>],
            [name |-> "SPA Mode", waitTime |-> 8000,
             waitUntil |-> <<"networkidle2">>, browserArgs |-> <<>>],
            [name |-> "Force Load", waitTime |-> 3000,
             waitUntil |-> <<"load">>, browserArgs |-> <<>>] >>
    ELSE << [name |-> "Standard", waitTime |-> 2000,
             waitUntil |-> <<"networkidle0">>, browserArgs |-> <<>>],
            [name |-> "Quick DOM", waitTime |-> 5000,
             waitUntil |-> <<"domcontentloaded">>, browserArgs |-> <<>>],
            [name |-> "Extended Wait", waitTime |-> 10000,
             waitUntil |-> <<"domcontentloaded", "networkidle2">>,
             browserArgs |-> <<>>],
            [name |-> "Minimal", waitTime |-> 3000,
             waitUntil |-> <<"load">>,
             browserArgs |-> <<"--disable-images", "--disable-javascript">>] >>

\* a selection that wraps around instead of clamping
StrategyForWrapping(v, i) ==
    LET S == DEFAULT_RETRY_STRATEGIES(v) IN S[(i % Len(S)) + 1]

\* DEFAULT_RETRY_STRATEGIES[Math.min(attempt, DEFAULT_RETRY_STRATEGIES.length - 1)]
StrategyFor(v, i) ==
    LET S == DEFAULT_RETRY_STRATEGIES(v) IN S[Min(i, Len(S) - 1) + 1]

\* a loop that runs one attempt too many
LoopContinuesOffByOne(a, r) == a <= r + 1

\* the loop condition  attempt <= retries
LoopContinues(a, r) == a <= r

\* a backoff that counts attempts from zero
BackoffDelayFromZero(a) == a * 2000

\* (attempt + 1) * 2000
BackoffDelay(a) == (a + 1) * 2000

\* `Failed to capture screenshot after ${retries + 1} attempts. Last error: ${lastError?.message}`
FailureMessage(r, e) == [attempts |-> r + 1, last |-> e]

NoFailure == [attempts |-> 0, last |-> NoError]

\* outputPath || `v0-review-${domain}-${timestamp}.png`, resolved
ScreenshotPath(given, ts) == IF given THEN [given |-> TRUE, ts |-> 0]
                             ELSE [given |-> FALSE, ts |-> ts]

NoPath == [given |-> FALSE, ts |-> -1]

NoStrategy == [name |-> "none", waitTime |-> 0, waitUntil |-> <<>>, browserArgs |-> <<>>]

\* page.goto of the running attempt has not rejected
NoNav == [error |-> NoError, text |-> FALSE]

CaptureInit ==
    /\ variant \in Variants
    /\ retries \in 0..MaxRetries
    /\ outputPath \in BOOLEAN
    /\ cpc = "loop"
    /\ attempt = 0
    /\ strategy = NoStrategy
    /\ browsers = 0
    /\ launches = 0
    /\ attempts = <<>>
    /\ navError = NoError
    /\ navSeen = NoNav
    /\ pending = NoError
    /\ attemptError = NoError
    /\ lastError = NoError
    /\ elapsed = 0
    /\ backoffs = <<>>
    /\ shots = <<>>
    /\ shotPath = NoPath
    /\ result = NoPath
    /\ thrown = NoFailure

\* for (attempt = 0; attempt <= retries; ...): the body is entered
BeginAttempt ==
    /\ cpc = "loop"
    /\ LoopContinues(attempt, retries)
    /\ strategy' = StrategyFor(variant, attempt)
    /\ navSeen' = NoNav
    /\ cpc' = "launch"
    /\ UNCHANGED <<variant, retries, outputPath, attempt, browsers, launches,
                   attempts, navError, pending, attemptError, lastError, elapsed,
                   backoffs, shots, shotPath, result, thrown>>
    /\ UNCHANGED notCapture

\* the loop is left: throw new Error(...)
Exhausted ==
    /\ cpc = "loop"
    /\ ~LoopContinues(attempt, retries)
    /\ thrown' = FailureMessage(retries, lastError)
    /\ cpc' = "thrown"
    /\ UNCHANGED <<variant, retries, outputPath, attempt, strategy, browsers,
                   launches, attempts, navError, pending, attemptError, lastError,
                   elapsed, backoffs, shots, shotPath, result>>
    /\ UNCHANGED navSeen
    /\ UNCHANGED notCapture

\* a catch block that records only the first error
CatchKeepFirst(e) ==
    /\ lastError' = IF lastError = NoError THEN e ELSE lastError
    /\ attempts' = Append(attempts, [strategy |-> strategy, error |-> e, ok |-> FALSE])
    /\ IF attempt < retries
       THEN cpc' = "backoff" /\ attempt' = attempt
       ELSE cpc' = "loop" /\ attempt' = attempt + 1

\* the catch block of captureWithRetry, entered with error e
Catch(e) ==
    /\ lastError' = e
    /\ attempts' = Append(attempts, [strategy |-> strategy, error |-> e, ok |-> FALSE])
    /\ IF attempt < retries
       THEN cpc' = "backoff" /\ attempt' = attempt
       ELSE cpc' = "loop" /\ attempt' = attempt + 1

\* a success that does not leave the loop
ReturnFallsThrough(path) ==
    /\ result' = path
    /\ attempts' = Append(attempts, [strategy |-> strategy, error |-> NoError, ok |-> TRUE])
    /\ cpc' = "loop"
    /\ attempt' = attempt + 1
    /\ UNCHANGED lastError

\* const result = await this.captureScreenshot(...); return result
Return(path) ==
    /\ result' = path
    /\ attempts' = Append(attempts, [strategy |-> strategy, error |-> NoError, ok |-> TRUE])
    /\ cpc' = "returned"
    /\ UNCHANGED <<attempt, lastError>>

\* puppeteer.launch resolves
LaunchOk ==
    /\ cpc = "launch"
    /\ launches' = launches + 1
    /\ browsers' = browsers + 1
    /\ cpc' = "setup"
    /\ UNCHANGED <<variant, retries, outputPath, attempt, strategy, attempts,
                   navError, pending, attemptError, lastError, elapsed, backoffs,
                   shots, shotPath, result, thrown>>
    /\ UNCHANGED navSeen
    /\ UNCHANGED notCapture

\* puppeteer.launch rejects: no browser exists, the attempt has failed
LaunchFail(e) ==
    /\ cpc = "launch"
    /\ launches' = launches + 1
    /\ attemptError' = e
    /\ Catch(e)
    /\ UNCHANGED <<variant, retries, outputPath, strategy, browsers, navError,
                   pending, elapsed, backoffs, shots, shotPath, result, thrown>>
    /\ UNCHANGED navSeen
    /\ UNCHANGED notCapture

\* an error leaves the try block without passing through finally
OnPageErrorNoFinally(e) ==
    /\ attemptError' = e
    /\ pending' = pending
    /\ Catch(e)

\* an error leaves the try block of captureScreenshot: finally runs next
OnPageError(e) ==
    /\ attemptError' = e
    /\ pending' = e
    /\ cpc' = "close"
    /\ UNCHANGED <<attempt, attempts, lastError>>

\* the step after page.goto
AfterGoto ==
    IF variant = "recovering" /\ strategy.name \in {"Dynamic Content", "SPA Mode"}
    THEN "detect" ELSE "settle"

\* newPage, setUserAgent, setExtraHTTPHeaders, evaluateOnNewDocument, setViewport
SetupOk ==
    /\ cpc = "setup"
    /\ cpc' = "goto"
    /\ UNCHANGED <<variant, retries, outputPath, attempt, strategy, browsers,
                   launches, attempts, navError, pending, attemptError, lastError,
                   elapsed, backoffs, shots, shotPath, result, thrown>>
    /\ UNCHANGED navSeen
    /\ UNCHANGED notCapture

\* page.goto resolves
GotoOk ==
    /\ cpc = "goto"
    /\ cpc' = AfterGoto
    /\ UNCHANGED <<variant, retries, outputPath, attempt, strategy, browsers,
                   launches, attempts, navError, pending, attemptError, lastError,
                   elapsed, backoffs, shots, shotPath, result, thrown>>
    /\ UNCHANGED navSeen
    /\ UNCHANGED notCapture

\* page.goto rejects and the source catches it to look for content
GotoFailRecover(e) ==
    /\ cpc = "goto"
    /\ variant = "recovering"
    /\ navError' = e
    /\ cpc' = "recover"
    /\ UNCHANGED <<variant, retries, outputPath, attempt, strategy, browsers,
                   launches, attempts, pending, attemptError, lastError, elapsed,
                   backoffs, shots, shotPath, result, thrown>>
    /\ UNCHANGED navSeen
    /\ UNCHANGED notCapture

\* const hasContent = await page.evaluate(...); if (!hasContent) throw navError
Recover(hasContent) ==
    /\ cpc = "recover"
    /\ navError' = NoError
    /\ navSeen' = [error |-> navError, text |-> hasContent]
    /\ IF hasContent
       THEN /\ cpc' = AfterGoto
            /\ UNCHANGED <<attempt, attempts, lastError, pending, attemptError>>
       ELSE OnPageError(navError)
    /\ UNCHANGED <<variant, retries, outputPath, strategy, browsers, launches,
                   elapsed, backoffs, shots, shotPath, result, thrown>>
    /\ UNCHANGED notCapture

\* the framework detection of the "recovering" source resolves
DetectOk ==
    /\ cpc = "detect"
    /\ cpc' = "settle"
    /\ UNCHANGED <<variant, retries, outputPath, attempt, strategy, browsers,
                   launches, attempts, navError, pending, attemptError, lastError,
                   elapsed, backoffs, shots, shotPath, result, thrown>>
    /\ UNCHANGED navSeen
    /\ UNCHANGED notCapture

\* if (strategy.waitTime > 0) await setTimeout(strategy.waitTime)
Settle ==
    /\ cpc = "settle"
    /\ elapsed' = IF strategy.waitTime > 0 THEN elapsed + strategy.waitTime ELSE elapsed
    /\ cpc' = "scroll"
    /\ UNCHANGED <<variant, retries, outputPath, attempt, strategy, browsers,
                   launches, attempts, navError, pending, attemptError, lastError,
                   backoffs, shots, shotPath, result, thrown>>
    /\ UNCHANGED navSeen
    /\ UNCHANGED notCapture

\* the lazy-loading scroll resolves
ScrollOk ==
    /\ cpc = "scroll"
    /\ cpc' = "shot"
    /\ UNCHANGED <<variant, retries, outputPath, attempt, strategy, browsers,
                   launches, attempts, navError, pending, attemptError, lastError,
                   elapsed, backoffs, shots, shotPath, result, thrown>>
    /\ UNCHANGED navSeen
    /\ UNCHANGED notCapture

\* filename, mkdir, page.screenshot resolve; return screenshotPath
ShotOk ==
    /\ cpc = "shot"
    /\ shotPath' = ScreenshotPath(outputPath, elapsed)
    /\ shots' = Append(shots, [attempt |-> attempt, strategy |-> strategy.name,
                               path |-> ScreenshotPath(outputPath, elapsed)])
    /\ pending' = NoError
    /\ cpc' = "close"
    /\ UNCHANGED <<variant, retries, outputPath, attempt, strategy, browsers,
                   launches, attempts, navError, attemptError, lastError, elapsed,
                   backoffs, result, thrown>>
    /\ UNCHANGED navSeen
    /\ UNCHANGED notCapture

\* page.goto rejects with e in the source that has no catch around it, the
\* page showing text (hasContent) or not
GotoFail(e, hasContent) ==
    /\ cpc = "goto"
    /\ variant = "plain"
    /\ navSeen' = [error |-> e, text |-> hasContent]
    /\ OnPageError(e)
    /\ UNCHANGED <<variant, retries, outputPath, strategy, browsers, launches,
                   navError, elapsed, backoffs, shots, shotPath, result, thrown>>
    /\ UNCHANGED notCapture

\* any other awaited page operation after the launch rejects with e
PageStepFail(e) ==
    /\ cpc \in {"setup", "detect", "scroll", "shot", "recover"}
    /\ navError' = NoError
    /\ OnPageError(e)
    /\ UNCHANGED <<variant, retries, outputPath, strategy, browsers, launches,
                   elapsed, backoffs, shots, shotPath, result, thrown>>
    /\ UNCHANGED navSeen
    /\ UNCHANGED notCapture

\* finally { await browser.close() }, then the return or the rethrow
Close ==
    /\ cpc = "close"
    /\ browsers' = browsers - 1
    /\ pending' = NoError
    /\ IF pending = NoError
       THEN Return(shotPath)
       ELSE /\ Catch(pending)
            /\ UNCHANGED result
    /\ UNCHANGED <<variant, retries, outputPath, strategy, launches, navError,
                   attemptError, elapsed, backoffs, shots, shotPath, thrown>>
    /\ UNCHANGED navSeen
    /\ UNCHANGED notCapture

\* browser.close() itself rejects with e (the connection is already gone): the
\* error leaves finally in place of the return value or of the pending error
CloseFail(e) ==
    /\ cpc = "close"
    /\ browsers' = browsers - 1
    /\ pending' = NoError
    /\ attemptError' = e
    /\ Catch(e)
    /\ UNCHANGED <<variant, retries, outputPath, strategy, launches, navError,
                   elapsed, backoffs, shots, shotPath, result, thrown>>
    /\ UNCHANGED navSeen
    /\ UNCHANGED notCapture

\* await setTimeout(waitTime), then attempt++
Backoff ==
    /\ cpc = "backoff"
    /\ elapsed' = elapsed + BackoffDelay(attempt)
    /\ backoffs' = Append(backoffs, BackoffDelay(attempt))
    /\ attempt' = attempt + 1
    /\ cpc' = "loop"
    /\ UNCHANGED <<variant, retries, outputPath, strategy, browsers, launches,
                   attempts, navError, pending, attemptError, lastError, shots,
                   shotPath, result, thrown>>
    /\ UNCHANGED navSeen
    /\ UNCHANGED notCapture

CaptureNext ==
    \/ BeginAttempt
    \/ Exhausted
    \/ LaunchOk
    \/ \E e \in ErrorMessages : LaunchFail(e)
    \/ SetupOk
    \/ GotoOk
    \/ \E e \in ErrorMessages : GotoFailRecover(e)
    \/ \E h \in BOOLEAN : Recover(h)
    \/ DetectOk
    \/ Settle
    \/ ScrollOk
    \/ ShotOk
    \/ \E e \in ErrorMessages, h \in BOOLEAN : GotoFail(e, h)
    \/ \E e \in ErrorMessages : PageStepFail(e)
    \/ Close
    \/ \E e \in ErrorMessages : CloseFail(e)
    \/ Backoff

(***************************************************************************)
(* Model dispatcher: MultiModelAIService.chat over RateLimiter             *)
(***************************************************************************)
\* the CLI invocations / sessions that call chat
Callers == {"cli1", "cli2"}

Families == {"v0", "openai", "anthropic"}

\* the AIModel union, and one identifier outside it (a config value)
Models == {"v0", "gpt-4", "gpt-4-turbo", "gpt-3.5-turbo", "o3-mini",
           "claude-3-opus", "claude-3-sonnet", "claude-3-haiku", "claude-sonnet-4",
           "legacy-model"}

\* errors a backend call ends with: HTTP status not ok, transport, bad body
BackendErrors == {"API error", "network error"}

V0Cap == 200
OpenAICap == 10000
AnthropicCap == 1000

\* RateLimiter.limits
limits(f) ==
    CASE f = "v0" -> [daily |-> V0Cap, window |-> 24 * 60 * 60 * 1000]
      [] f = "openai" -> [daily |-> OpenAICap, window |-> 60 * 1000]
      [] f = "anthropic" -> [daily |-> AnthropicCap, window |-> 60 * 1000]

\* a family table that counts o3-mini against v0
getServiceForModelO3AsV0(m) ==
    CASE m \in {"v0", "o3-mini"} -> "v0"
      [] m \in {"gpt-4", "gpt-4-turbo", "gpt-3.5-turbo"} -> "openai"
      [] m \in {"claude-3-opus", "claude-3-sonnet", "claude-3-haiku",
                "claude-sonnet-4"} -> "anthropic"
      [] OTHER -> "v0"

\* MultiModelAIService.getServiceForModel
getServiceForModel(m) ==
    CASE m = "v0" -> "v0"
      [] m \in {"gpt-4", "gpt-4-turbo", "gpt-3.5-turbo", "o3-mini"} -> "openai"
      [] m \in {"claude-3-opus", "claude-3-sonnet", "claude-3-haiku",
                "claude-sonnet-4"} -> "anthropic"
      [] OTHER -> "v0"

\* the switch of chat: the backend a model is sent to
BackendFor(m) ==
    CASE m = "v0" -> "v0"
      [] m \in {"gpt-4", "gpt-4-turbo", "gpt-3.5-turbo", "o3-mini"} -> "openai"
      [] m \in {"claude-3-opus", "claude-3-sonnet", "claude-3-haiku",
                "claude-sonnet-4"} -> "anthropic"
      [] OTHER -> "unsupported"

\* rounding down
FloorDiv(a, b) == a \div b

\* Math.ceil(a / b) for b > 0
CeilDiv(a, b) == -((-a) \div b)

\* the data loadData makes up when the file cannot be read
EmptyData(t) == [f \in Families |-> [count |-> 0, resetAt |-> t + limits(f).window]]

\* RateLimiter.loadData
loadData == IF fileExists THEN qfile ELSE EmptyData(now)

\* now > serviceData.resetAt
Expired(t, sd) == t > sd.resetAt

\* a reset that forgets the current time
ResetWindowFromEpoch(t, f) == [count |-> 0, resetAt |-> limits(f).window]

\* serviceData.count = 0; serviceData.resetAt = now + window
ResetWindow(t, f) == [count |-> 0, resetAt |-> t + limits(f).window]

\* a check that still allows a call at the cap
AllowedAtCap(remaining) == remaining >= 0

\* const allowed = remaining > 0
Allowed(remaining) == remaining > 0

\* resetIn rounded down
ResetInFloor(t, sd) == FloorDiv(sd.resetAt - t, 1000)

\* Math.ceil((serviceData.resetAt - now) / 1000)
ResetIn(t, sd) == CeilDiv(sd.resetAt - t, 1000)

\* the value checkLimit returns for serviceData sd read at time t
LimitResult(t, sd, f) ==
    LET remaining == Max(0, limits(f).daily - sd.count)
        allowed == Allowed(remaining)
    IN [remaining |-> remaining, allowed |-> allowed,
        hasResetIn |-> ~allowed,
        resetIn |-> IF allowed THEN 0 ELSE ResetIn(t, sd)]

NoLimitResult == [remaining |-> 0, allowed |-> FALSE, hasResetIn |-> FALSE, resetIn |-> 0]

\* RateLimiter.formatResetTime
formatResetTime(seconds) ==
    IF seconds < 60 THEN [n |-> seconds, unit |-> "s"]
    ELSE IF seconds < 3600 THEN [n |-> CeilDiv(seconds, 60), unit |-> "m"]
    ELSE [n |-> CeilDiv(seconds, 3600), unit |-> "h"]

NoResetTime == [n |-> 0, unit |-> "none"]

NoOutcome == [service |-> "none", error |-> NoError, status |-> "none", resets |-> NoResetTime]

\* chat returns the text of the backend
Returned == [service |-> "none", error |-> NoError, status |-> "ok", resets |-> NoResetTime]

\* chat throws an error with message e
Thrown(e) == [service |-> "none", error |-> e, status |-> "error", resets |-> NoResetTime]

\* `Rate limit exceeded for ${service}. Resets in ${resetTime}. ...`
RateLimitExceeded(f, r) ==
    [service |-> f, error |-> "Rate limit exceeded", status |-> "error",
     resets |-> formatResetTime(r.resetIn)]

NoData == [f \in Families |-> [count |-> 0, resetAt |-> 0]]

NoPre == [data |-> NoData, exists |-> FALSE]

\* clock advances: 1 ms, 1.5 s, a day
TickSteps == {1, 1500, 24 * 60 * 60 * 1000}

\* resetAt of a quota file written by earlier runs: the day window of v0 just
\* opened, the openai window about to end, the anthropic window just opened
InitialResetAt(f) ==
    CASE f = "v0" -> limits(f).window
      [] f = "openai" -> 1500
      [] f = "anthropic" -> limits(f).window

\* a quota file as earlier runs left it: every count at its cap or one below
InitialFiles ==
    { [f \in Families |-> [count |-> limits(f).daily - c[f], resetAt |-> InitialResetAt(f)]] :
        c \in [Families -> {0, 1}] }

QuotaInit ==
    /\ now = 0
    /\ ticks = 0
    /\ calls = 0
    /\ \/ fileExists = FALSE /\ qfile = NoData
       \/ fileExists = TRUE /\ qfile \in InitialFiles
    /\ dpc = [p \in Callers |-> "idle"]
    /\ model = [p \in Callers |-> "none"]
    /\ service = [p \in Callers |-> "none"]
    /\ hasClient = [p \in Callers |-> FALSE]
    /\ data = [p \in Callers |-> NoData]
    /\ nowAt = [p \in Callers |-> 0]
    /\ chk = [p \in Callers |-> NoLimitResult]
    /\ invoked = [p \in Callers |-> <<>>]
    /\ raised = [p \in Callers |-> NoError]
    /\ outcome = [p \in Callers |-> NoOutcome]
    /\ pre = [p \in Callers |-> NoPre]

\* the clock moves on. Only loadData and checkLimit read the clock, so time
\* passing between two calls or during the network call covers every reading
Tick(d) ==
    /\ ticks < MaxTicks
    /\ \A p \in Callers : dpc[p] \in {"idle", "backend"}
    /\ ticks' = ticks + 1
    /\ now' = now + d
    /\ UNCHANGED <<calls, fileExists, qfile, dpc, model, service, hasClient, data,
                   nowAt, chk, invoked, raised, outcome, pre>>
    /\ UNCHANGED notQuota

\* a quota check that never refuses
QuotaDeniedNever(r) == FALSE

\* if (!allowed) throw ...
QuotaDenied(r) == ~r.allowed

\* chat from the return of checkLimit (result r) to its next await: the
\* rate-limit throw, or the switch and the guards of chatWithV0 /
\* chatWithOpenAI / chatWithClaude up to the network call
AfterCheck(p, m, key, r) ==
    LET f == getServiceForModel(m) IN
    IF QuotaDenied(r)
    THEN /\ dpc' = [dpc EXCEPT ![p] = "done"]
         /\ raised' = [raised EXCEPT ![p] = "Rate limit exceeded"]
         /\ outcome' = [outcome EXCEPT ![p] = RateLimitExceeded(f, r)]
         /\ UNCHANGED invoked
    ELSE IF BackendFor(m) = "unsupported"
    THEN /\ dpc' = [dpc EXCEPT ![p] = "done"]
         /\ raised' = [raised EXCEPT ![p] = "Unsupported model"]
         /\ outcome' = [outcome EXCEPT ![p] = Thrown("Unsupported model")]
         /\ UNCHANGED invoked
    ELSE IF ~key
    THEN /\ dpc' = [dpc EXCEPT ![p] = "done"]
         /\ raised' = [raised EXCEPT ![p] = "API key not configured"]
         /\ outcome' = [outcome EXCEPT ![p] = Thrown("API key not configured")]
         /\ UNCHANGED invoked
    ELSE /\ dpc' = [dpc EXCEPT ![p] = "backend"]
         /\ invoked' = [invoked EXCEPT ![p] = Append(@, BackendFor(m))]
         /\ UNCHANGED <<raised, outcome>>

\* chat(messages, {model: m}) on a service instance whose client for m's
\* backend is configured iff key: checkLimit reads the quota file and the
\* clock; an expired window is reset in memory and written next, otherwise
\* checkLimit returns and chat goes on
ChatCheck(p, m, key) ==
    LET f == getServiceForModel(m)
        loaded == loadData
        sd == loaded[f]
    IN
    /\ dpc[p] = "idle"
    /\ calls < MaxCalls
    /\ calls' = calls + 1
    /\ model' = [model EXCEPT ![p] = m]
    /\ service' = [service EXCEPT ![p] = f]
    /\ hasClient' = [hasClient EXCEPT ![p] = key]
    /\ nowAt' = [nowAt EXCEPT ![p] = now]
    /\ pre' = [pre EXCEPT ![p] = [data |-> loaded, exists |-> fileExists]]
    /\ IF Expired(now, sd)
       THEN /\ data' = [data EXCEPT ![p] = [loaded EXCEPT ![f] = ResetWindow(now, f)]]
            /\ dpc' = [dpc EXCEPT ![p] = "checkSave"]
            /\ UNCHANGED <<chk, invoked, raised, outcome>>
       ELSE /\ data' = [data EXCEPT ![p] = loaded]
            /\ chk' = [chk EXCEPT ![p] = LimitResult(now, sd, f)]
            /\ AfterCheck(p, m, key, LimitResult(now, sd, f))
    /\ UNCHANGED <<now, ticks, fileExists, qfile>>
    /\ UNCHANGED notQuota

\* await this.saveData(data) of checkLimit, its return, and chat going on
CheckSave(p) ==
    LET f == service[p]
        r == LimitResult(nowAt[p], data[p][f], f)
    IN
    /\ dpc[p] = "checkSave"
    /\ qfile' = data[p]
    /\ fileExists' = TRUE
    /\ chk' = [chk EXCEPT ![p] = r]
    /\ AfterCheck(p, model[p], hasClient[p], r)
    /\ UNCHANGED <<now, ticks, calls, model, service, hasClient, data, nowAt, pre>>
    /\ UNCHANGED notQuota

\* a success path that returns without counting the call
OnBackendOkUncounted(p) ==
    /\ dpc' = [dpc EXCEPT ![p] = "done"]
    /\ outcome' = [outcome EXCEPT ![p] = Returned]

\* result = await this.chatWith...(); then await this.rateLimiter.increment(service)
OnBackendOk(p) ==
    /\ dpc' = [dpc EXCEPT ![p] = "incLoad"]
    /\ UNCHANGED outcome

\* the backend call resolves with a response text
BackendResolve(p) ==
    /\ dpc[p] = "backend"
    /\ OnBackendOk(p)
    /\ UNCHANGED <<now, ticks, calls, fileExists, qfile, model, service, hasClient,
                   data, nowAt, chk, invoked, raised, pre>>
    /\ UNCHANGED notQuota

\* the backend call fails with e: catch (error) { throw error }
BackendReject(p, e) ==
    /\ dpc[p] = "backend"
    /\ raised' = [raised EXCEPT ![p] = e]
    /\ outcome' = [outcome EXCEPT ![p] = Thrown(e)]
    /\ dpc' = [dpc EXCEPT ![p] = "done"]
    /\ UNCHANGED <<now, ticks, calls, fileExists, qfile, model, service, hasClient,
                   data, nowAt, chk, invoked, pre>>
    /\ UNCHANGED notQuota

\* an increment that counts the call against every family
IncLoadCountsAll(p) ==
    LET loaded == loadData IN
    /\ dpc[p] = "incLoad"
    /\ data' = [data EXCEPT ![p] = [f \in Families |->
                                       [loaded[f] EXCEPT !.count = @ + 1]]]
    /\ dpc' = [dpc EXCEPT ![p] = "incSave"]
    /\ UNCHANGED <<now, ticks, calls, fileExists, qfile, model, service, hasClient,
                   nowAt, chk, invoked, raised, outcome, pre>>
    /\ UNCHANGED notQuota

\* increment: const data = await this.loadData(); data[service].count++
IncLoad(p) ==
    LET f == service[p]
        loaded == loadData
    IN
    /\ dpc[p] = "incLoad"
    /\ data' = [data EXCEPT ![p] = [loaded EXCEPT ![f].count = @ + 1]]
    /\ dpc' = [dpc EXCEPT ![p] = "incSave"]
    /\ UNCHANGED <<now, ticks, calls, fileExists, qfile, model, service, hasClient,
                   nowAt, chk, invoked, raised, outcome, pre>>
    /\ UNCHANGED notQuota

\* increment: await this.saveData(data); then chat returns result
IncSave(p) ==
    /\ dpc[p] = "incSave"
    /\ qfile' = data[p]
    /\ fileExists' = TRUE
    /\ outcome' = [outcome EXCEPT ![p] = Returned]
    /\ dpc' = [dpc EXCEPT ![p] = "done"]
    /\ UNCHANGED <<now, ticks, calls, model, service, hasClient, data, nowAt, chk,
                   invoked, raised, pre>>
    /\ UNCHANGED notQuota

\* the locals of caller p's chat call go away when the call has ended
FinishLocals(p) ==
    /\ dpc[p] = "done"
    /\ dpc' = [dpc EXCEPT ![p] = "idle"]
    /\ model' = [model EXCEPT ![p] = "none"]
    /\ service' = [service EXCEPT ![p] = "none"]
    /\ hasClient' = [hasClient EXCEPT ![p] = FALSE]
    /\ data' = [data EXCEPT ![p] = NoData]
    /\ nowAt' = [nowAt EXCEPT ![p] = 0]
    /\ chk' = [chk EXCEPT ![p] = NoLimitResult]
    /\ invoked' = [invoked EXCEPT ![p] = <<>>]
    /\ raised' = [raised EXCEPT ![p] = NoError]
    /\ outcome' = [outcome EXCEPT ![p] = NoOutcome]
    /\ pre' = [pre EXCEPT ![p] = NoPre]
    /\ UNCHANGED <<now, ticks, calls, fileExists, qfile>>

\* the caller has its answer; the call's frame is gone
Finish(p) ==
    /\ FinishLocals(p)
    /\ UNCHANGED notQuota

\* the caller of the sequential runs
Caller == "cli1"

\* chat calls made one after the other
SequentialNext ==
    \/ \E d \in TickSteps : Tick(d)
    \/ \E m \in Models, key \in BOOLEAN : ChatCheck(Caller, m, key)
    \/ CheckSave(Caller)
    \/ BackendResolve(Caller)
    \/ \E e \in BackendErrors : BackendReject(Caller, e)
    \/ IncLoad(Caller)
    \/ IncSave(Caller)
    \/ Finish(Caller)

\* two CLI invocations run chat at the same time against one quota file; each
\* awaited file or network operation is a step of its own
ConcurrentNext ==
    \/ \E p \in Callers, m \in Models, key \in BOOLEAN : ChatCheck(p, m, key)
    \/ \E p \in Callers : CheckSave(p)
    \/ \E p \in Callers : BackendResolve(p)
    \/ \E p \in Callers, e \in BackendErrors : BackendReject(p, e)
    \/ \E p \in Callers : IncLoad(p)
    \/ \E p \in Callers : IncSave(p)

\* the dispatcher is not running
QuotaParked ==
    /\ now = 0
    /\ ticks = 0
    /\ calls = 0
    /\ fileExists = FALSE
    /\ qfile = NoData
    /\ dpc = [p \in Callers |-> "idle"]
    /\ model = [p \in Callers |-> "none"]
    /\ service = [p \in Callers |-> "none"]
    /\ hasClient = [p \in Callers |-> FALSE]
    /\ data = [p \in Callers |-> NoData]
    /\ nowAt = [p \in Callers |-> 0]
    /\ chk = [p \in Callers |-> NoLimitResult]
    /\ invoked = [p \in Callers |-> <<>>]
    /\ raised = [p \in Callers |-> NoError]
    /\ outcome = [p \in Callers |-> NoOutcome]
    /\ pre = [p \in Callers |-> NoPre]

\* no capture is running
CaptureParked ==
    /\ CaptureInit
    /\ variant = "plain"
    /\ retries = 0
    /\ outputPath = FALSE

(***************************************************************************)
(* Model fallback: ModelFallback                                           *)
(***************************************************************************)
\* the AIModel union
AIModels == Models \ {"legacy-model"}

\* the null getNextModel returns
NoModel == "null"

\* ModelFallback.fallbackOrder
fallbackOrder == <<"v0", "gpt-4-turbo", "claude-sonnet-4", "gpt-4",
                   "claude-3-sonnet", "o3-mini", "claude-3-haiku">>

RECURSIVE IndexFrom(_, _, _)
\* the search of Array.prototype.indexOf from position i (1-based) on
IndexFrom(seq, x, i) ==
    IF i > Len(seq) THEN -1
    ELSE IF seq[i] = x THEN i - 1
    ELSE IndexFrom(seq, x, i + 1)

\* Array.prototype.indexOf: the 0-based index of x, -1 when x is absent
indexOf(seq, x) == IndexFrom(seq, x, 1)

RECURSIVE ScanOrder(_, _, _)
\* for (let i = lo; i < hi; i++)
\*   if (availableModels.includes(fallbackOrder[i])) return fallbackOrder[i]
ScanOrder(i, hi, availableModels) ==
    IF i >= hi THEN NoModel
    ELSE IF fallbackOrder[i + 1] \in availableModels THEN fallbackOrder[i + 1]
    ELSE ScanOrder(i + 1, hi, availableModels)

\* a second loop that also visits the current model
BeforeCurrentInclusive(currentIndex) == currentIndex + 1

\* the bound of the second loop:  i < currentIndex
BeforeCurrent(currentIndex) == currentIndex

\* ModelFallback.getNextModel
getNextModel(currentModel, availableModels) ==
    LET currentIndex == indexOf(fallbackOrder, currentModel)
        after == ScanOrder(currentIndex + 1, Len(fallbackOrder), availableModels)
    IN IF after # NoModel THEN after
       ELSE ScanOrder(0, BeforeCurrent(currentIndex), availableModels)

\* messages of the errors a review ends with
FallbackErrors == {"V0 API error: 500 - Internal Server Error",
                   "Rate limit exceeded",
                   "V0 API error: 401 - Unauthorized",
                   "network error"}

\* the substrings suggestFallback looks for that message e contains
Markers(e) ==
    CASE e = "V0 API error: 500 - Internal Server Error" -> {"500", "Internal Server Error"}
      [] e = "Rate limit exceeded" -> {"Rate limit"}
      [] e = "Rate limit exceeded. v0 API allows 200 requests/day. Try again tomorrow."
           -> {"Rate limit"}
      [] e = "V0 API error: 401 - Unauthorized" -> {"401"}
      [] OTHER -> {}

\* error.message.includes(marker)
Includes(e, marker) == marker \in Markers(e)

NoAdvice == [model |-> NoModel, hint |-> "none", advice |-> "none"]

\* ModelFallback.suggestFallback: the lines it prints
suggestFallback(error, currentModel, availableModels) ==
    LET nextModel == getNextModel(currentModel, availableModels)
        hint == IF Includes(error, "500") \/ Includes(error, "Internal Server Error")
                THEN "server issues"
                ELSE IF Includes(error, "Rate limit") THEN "rate limit"
                ELSE IF Includes(error, "401") \/ Includes(error, "403")
                THEN "authentication"
                ELSE "none"
    IN IF nextModel # NoModel
       THEN [model |-> nextModel, hint |-> hint, advice |-> "try a different model"]
       ELSE IF availableModels = {}
       THEN [model |-> NoModel, hint |-> hint, advice |-> "no API keys configured"]
       ELSE [model |-> NoModel, hint |-> hint, advice |-> "exhausted"]

FallbackInit ==
    /\ fbpc = "ready"
    /\ fbCurrent \in AIModels
    /\ fbAvailable \in SUBSET AIModels
    /\ fbError \in FallbackErrors
    /\ fbNext = NoModel
    /\ fbAdvice = NoAdvice

\* a call of getNextModel(currentModel, availableModels)
GetNextModel ==
    /\ fbpc = "ready"
    /\ fbNext' = getNextModel(fbCurrent, fbAvailable)
    /\ fbpc' = "next"
    /\ UNCHANGED <<fbCurrent, fbAvailable, fbError, fbAdvice>>
    /\ UNCHANGED notFallback

\* a call of suggestFallback(error, currentModel, availableModels)
SuggestFallback ==
    /\ fbpc = "ready"
    /\ fbNext' = getNextModel(fbCurrent, fbAvailable)
    /\ fbAdvice' = suggestFallback(fbError, fbCurrent, fbAvailable)
    /\ fbpc' = "suggested"
    /\ UNCHANGED <<fbCurrent, fbAvailable, fbError>>
    /\ UNCHANGED notFallback

FallbackNext ==
    \/ GetNextModel
    \/ SuggestFallback

\* no fallback is being computed
FallbackParked ==
    /\ fbpc = "ready"
    /\ fbCurrent = "v0"
    /\ fbAvailable = {}
    /\ fbError = NoError
    /\ fbNext = NoModel
    /\ fbAdvice = NoAdvice

(***************************************************************************)
(* One review: V0UIReviewerCLI.reviewURL / reviewScreenshot over           *)
(* EnhancedCapture, ImageResizer, TempManager and the dispatcher           *)
(***************************************************************************)
Urls == {"https://a.example", "https://b.example"}

NoUrl == "none"

\* a path: directory, file name without its extension, the "-<n>" index and
\* the Date.now() stamp in the name (0 when there is none), a "-resized"
\* suffix, and the extension
FilePath(dir, name, index, stamp, ext) ==
    [name |-> name, dir |-> dir, index |-> index, stamp |-> stamp,
     ext |-> ext, suffix |-> ""]

NoFilePath == FilePath("none", "none", 0, 0, "")

\* extensions of the image files a user passes with --screenshot
ImageExts == {"png", "jpeg", "webp"}

\* imagePath.replace(/\.(png|jpg|jpeg)$/i, '-resized.jpg')
ResizedPath(imagePath) ==
    IF imagePath.ext \in {"png", "jpg", "jpeg"}
    THEN [imagePath EXCEPT !.suffix = "-resized", !.ext = "jpg"]
    ELSE imagePath

\* options.outputPath?.replace(/\.(md|txt)$/, '.png')
ScreenshotOutputPath(out) ==
    IF out.ext \in {"md", "txt"} THEN [out EXCEPT !.ext = "png"] ELSE out

\* TempManager.getScreenshotPath(url) at Date.now() = stamp
TempScreenshotPath(url, stamp) == FilePath("tmp", url, 0, stamp, "png")

\* the limits of resizeForAPI / needsResize
MaxWidth == 1920
MaxHeight == 1080
MaxFileSize == 1572864
StartQuality == 85
MinQuality == 20
QualityStep == 10

\* an image file: pixel size, bytes on disk, the bytes of its JPEG encoding at
\* quality 85 and what each quality step of 10 saves (what sharp produces for
\* it), and whose content it is
ImageFile(w, h, size, j85, saves, origin) ==
    [h |-> h, w |-> w, size |-> size, j85 |-> j85, saves |-> saves,
     origin |-> origin, kind |-> "image"]

NoImage == ImageFile(0, 0, 0, 0, 0, "none")

\* the images a user passes: within every limit; too tall; too wide and too
\* heavy, small once encoded; too wide and heavy, small enough only after
\* some quality steps
ImageShapes ==
    { <<1280, 800, 400000, 300000, 20000>>,
      <<1920, 6896, 1400000, 900000, 50000>>,
      <<3840, 2160, 5000000, 1200000, 100000>>,
      <<3840, 2161, 9000000, 2400000, 200000>> }

Images(origin) == { ImageFile(t[1], t[2], t[3], t[4], t[5], origin) : t \in ImageShapes }

\* the screenshots page.screenshot writes at a 1920 px viewport: of the
\* viewport only, and of a full page taller than the viewport
CapturedImages ==
    { ImageFile(1920, 1080, 400000, 300000, 20000, "capture"),
      ImageFile(1920, 6896, 1400000, 900000, 50000, "capture") }

\* Math.round(a / b) for a >= 0, b > 0
RoundDiv(a, b) == (2 * a + b) \div (2 * b)

\* newWidth, newHeight of resizeForAPI:
\* scale = min(w > maxWidth ? maxWidth / w : 1, h > maxHeight ? maxHeight / h : 1)
ScaledSize(w, h) ==
    LET byWidth == w > MaxWidth
        byHeight == h > MaxHeight
    IN IF ~byWidth /\ ~byHeight THEN [h |-> h, w |-> w]
       ELSE IF byWidth /\ (~byHeight \/ MaxWidth * h <= MaxHeight * w)
       THEN [h |-> RoundDiv(h * MaxWidth, w), w |-> RoundDiv(w * MaxWidth, w)]
       ELSE [h |-> RoundDiv(h * MaxHeight, h), w |-> RoundDiv(w * MaxHeight, h)]

\* resizedBuffer.length of sharp(...).resize(...).jpeg({ quality }).toBuffer()
JpegSize(img, quality) == Max(1, img.j85 - img.saves * ((StartQuality - quality) \div QualityStep))

\* ImageResizer.needsResize
needsResize(img) == img.size > MaxFileSize \/ img.w > MaxWidth \/ img.h > MaxHeight

\* the buffer resizeForAPI writes for image img at quality q
ResizedImage(img, q) ==
    LET d == ScaledSize(img.w, img.h)
    IN ImageFile(d.w, d.h, JpegSize(img, q), 0, 0, "resized")

\* the markdown report saveAnalysis writes
ReportFile(url) == [url |-> url, kind |-> "report"]

\* fs: a file exists / its content / writing / unlinking
Exists(fs, path) == path \in DOMAIN fs

WriteFile(fs, path, content) ==
    [q \in DOMAIN fs \cup {path} |-> IF q = path THEN content ELSE fs[q]]

Unlink(fs, path) == [q \in DOMAIN fs \ {path} |-> fs[q]]

NoFiles == [q \in {} |-> NoImage]

\* session.json / analysis.json before anything was saved
EmptySession ==
    [lastUrl |-> NoUrl, lastScreenshot |-> NoFilePath, screenshots |-> {},
     hasStyles |-> FALSE, analysis |-> NoUrl]

\* TempManager.saveStyleTokens and saveScreenshotInfo
saveScreenshotInfo(t, url, path) ==
    [t EXCEPT !.hasStyles = TRUE, !.lastUrl = url, !.lastScreenshot = path,
              !.screenshots = @ \cup {[path |-> path, url |-> url]}]

\* TempManager.saveAnalysis(result): analysis.json holds result, whose url is url
saveAnalysis(t, url) == [t EXCEPT !.analysis = url]

\* TempManager.getLastScreenshot
getLastScreenshot(t, fs) ==
    IF t.lastUrl # NoUrl /\ t.lastScreenshot # NoFilePath /\ Exists(fs, t.lastScreenshot)
    THEN [path |-> t.lastScreenshot, url |-> t.lastUrl, found |-> TRUE]
    ELSE [path |-> NoFilePath, url |-> NoUrl, found |-> FALSE]

NoReviewResult == [error |-> NoError, status |-> "none"]

\* the catch of reviewURL / reviewScreenshot: the error it throws for error e
ReviewError(e) ==
    IF Includes(e, "Rate limit")
    THEN "Rate limit exceeded. v0 API allows 200 requests/day. Try again tomorrow."
    ELSE IF Includes(e, "Invalid API key")
    THEN "Invalid API key. Get your key from https://v0.dev"
    ELSE e

\* this.defaultModel of the service: 'v0' unless configured
defaultModel == "v0"

\* const model = options.model || this.defaultModel
ChatModel(m) == IF m = NoModel THEN defaultModel ELSE m

RECURSIVE FinalQuality(_, _)
\* the quality the loop of resizeForAPI ends with, entered at quality q
FinalQuality(img, q) ==
    IF JpegSize(img, q) > MaxFileSize /\ q > MinQuality
    THEN FinalQuality(img, q - QualityStep)
    ELSE q

\* the review ends by throwing: the catch of reviewURL / reviewScreenshot
ReviewFails(e) ==
    /\ rpc' = "done"
    /\ rResult' = [error |-> ReviewError(e), status |-> "error"]

\* entry of reviewURL(url, {model: m, outputPath: out}) up to puppeteer.launch
StartReviewURL(url, m, out) ==
    /\ rpc' = "launch"
    /\ rKind' = "url"
    /\ rUrl' = url
    /\ rModel' = m
    /\ rOut' = out
    /\ rShot' = NoFilePath
    /\ rLaunches' = 0
    /\ rGotos' = 0
    /\ rPending' = NoError
    /\ rEncode' = NoFilePath
    /\ rResized' = NoFilePath
    /\ rQuality' = 0
    /\ rImage' = NoImage
    /\ rInput' = NoImage
    /\ rResult' = NoReviewResult
    /\ UNCHANGED <<rBrowsers, keys, files, tm>>

\* entry of reviewScreenshot(path, {model: m}) up to imageToBase64
StartReviewScreenshot(path, m) ==
    /\ rpc' = "encode"
    /\ rKind' = "screenshot"
    /\ rUrl' = NoUrl
    /\ rModel' = m
    /\ rOut' = NoFilePath
    /\ rShot' = path
    /\ rLaunches' = 0
    /\ rGotos' = 0
    /\ rPending' = NoError
    /\ rEncode' = NoFilePath
    /\ rResized' = NoFilePath
    /\ rQuality' = 0
    /\ rImage' = NoImage
    /\ rInput' = NoImage
    /\ rResult' = NoReviewResult
    /\ UNCHANGED <<rBrowsers, keys, files, tm>>

\* captureWithStyles: puppeteer.launch resolves
RLaunchOk ==
    /\ rpc = "launch"
    /\ rLaunches' = rLaunches + 1
    /\ rBrowsers' = rBrowsers + 1
    /\ rpc' = "goto"
    /\ UNCHANGED <<rKind, rUrl, rModel, rOut, rShot, rGotos, rPending, rEncode,
                   rResized, rQuality, rImage, rInput, rResult, keys, files, tm>>
    /\ UNCHANGED notReview

\* captureWithStyles: puppeteer.launch rejects; nothing catches it before the
\* catch of reviewURL
RLaunchFail(e) ==
    /\ rpc = "launch"
    /\ rLaunches' = rLaunches + 1
    /\ ReviewFails(e)
    /\ UNCHANGED <<rKind, rUrl, rModel, rOut, rShot, rGotos, rBrowsers, rPending,
                   rEncode, rResized, rQuality, rImage, rInput, keys, files, tm>>
    /\ UNCHANGED notReview

\* newPage and the page set-up, then page.goto(url, networkidle0) resolves
RGotoOk ==
    /\ rpc = "goto"
    /\ rGotos' = rGotos + 1
    /\ rpc' = "shoot"
    /\ UNCHANGED <<rKind, rUrl, rModel, rOut, rShot, rLaunches, rBrowsers, rPending,
                   rEncode, rResized, rQuality, rImage, rInput, rResult, keys,
                   files, tm>>
    /\ UNCHANGED notReview

\* page.goto(url, networkidle0) rejects: the inner catch tries once more
RGotoRelax ==
    /\ rpc = "goto"
    /\ rGotos' = rGotos + 1
    /\ rpc' = "goto2"
    /\ UNCHANGED <<rKind, rUrl, rModel, rOut, rShot, rLaunches, rBrowsers, rPending,
                   rEncode, rResized, rQuality, rImage, rInput, rResult, keys,
                   files, tm>>
    /\ UNCHANGED notReview

\* page.goto(url, domcontentloaded) resolves; the 5 s wait
RGoto2Ok ==
    /\ rpc = "goto2"
    /\ rGotos' = rGotos + 1
    /\ rpc' = "shoot"
    /\ UNCHANGED <<rKind, rUrl, rModel, rOut, rShot, rLaunches, rBrowsers, rPending,
                   rEncode, rResized, rQuality, rImage, rInput, rResult, keys,
                   files, tm>>
    /\ UNCHANGED notReview

\* page.goto(url, domcontentloaded) rejects: the error leaves the try block
RGoto2Fail(e) ==
    /\ rpc = "goto2"
    /\ rGotos' = rGotos + 1
    /\ rPending' = e
    /\ rpc' = "close"
    /\ UNCHANGED <<rKind, rUrl, rModel, rOut, rShot, rLaunches, rBrowsers, rEncode,
                   rResized, rQuality, rImage, rInput, rResult, keys, files, tm>>
    /\ UNCHANGED notReview

\* the page set-up, the scroll, mkdir, page.screenshot or the style
\* extraction rejects: the error leaves the try block
RPageFail(e) ==
    /\ rpc \in {"goto", "shoot", "styles"}
    /\ rPending' = e
    /\ rpc' = "close"
    /\ UNCHANGED <<rKind, rUrl, rModel, rOut, rShot, rLaunches, rGotos, rBrowsers,
                   rEncode, rResized, rQuality, rImage, rInput, rResult, keys,
                   files, tm>>
    /\ UNCHANGED notReview

\* a Date.now() no earlier screenshot of the temp folder carries
FreshStamp(fs) == 1 + Cardinality({q \in DOMAIN fs : q.dir = "tmp" /\ q.suffix = ""})

\* the outputPath reviewURL hands to captureWithStyles
CaptureOutputPath(out, url, fs) ==
    IF out # NoFilePath THEN ScreenshotOutputPath(out)
    ELSE TempScreenshotPath(url, FreshStamp(fs))

\* the waits, the scroll, mkdir and page.screenshot({path}) writing image img
RShoot(img) ==
    LET path == CaptureOutputPath(rOut, rUrl, files) IN
    /\ rpc = "shoot"
    /\ rShot' = path
    /\ files' = WriteFile(files, path, img)
    /\ rpc' = "styles"
    /\ UNCHANGED <<rKind, rUrl, rModel, rOut, rLaunches, rGotos, rBrowsers, rPending,
                   rEncode, rResized, rQuality, rImage, rInput, rResult, keys, tm>>
    /\ UNCHANGED notReview

\* the style extraction resolves; captureWithStyles reaches its return
RStylesOk ==
    /\ rpc = "styles"
    /\ rpc' = "close"
    /\ UNCHANGED <<rKind, rUrl, rModel, rOut, rShot, rLaunches, rGotos, rBrowsers,
                   rPending, rEncode, rResized, rQuality, rImage, rInput, rResult,
                   keys, files, tm>>
    /\ UNCHANGED notReview

\* finally { await browser.close() } resolves: captureWithStyles returns or
\* rethrows what left its try block
RClose ==
    /\ rpc = "close"
    /\ rBrowsers' = rBrowsers - 1
    /\ rPending' = NoError
    /\ IF rPending # NoError
       THEN ReviewFails(rPending)
       ELSE rpc' = "info" /\ UNCHANGED rResult
    /\ UNCHANGED <<rKind, rUrl, rModel, rOut, rShot, rLaunches, rGotos, rEncode,
                   rResized, rQuality, rImage, rInput, keys, files, tm>>
    /\ UNCHANGED notReview

\* browser.close() rejects with e, which replaces whatever was travelling
RCloseFail(e) ==
    /\ rpc = "close"
    /\ rBrowsers' = rBrowsers - 1
    /\ rPending' = NoError
    /\ ReviewFails(e)
    /\ UNCHANGED <<rKind, rUrl, rModel, rOut, rShot, rLaunches, rGotos, rEncode,
                   rResized, rQuality, rImage, rInput, keys, files, tm>>
    /\ UNCHANGED notReview

\* saveStyleTokens, saveScreenshotInfo(url, screenshotPath), the image display
RSaveInfo ==
    /\ rpc = "info"
    /\ tm' = saveScreenshotInfo(tm, rUrl, rShot)
    /\ rpc' = "encode"
    /\ UNCHANGED <<rKind, rUrl, rModel, rOut, rShot, rLaunches, rGotos, rBrowsers,
                   rPending, rEncode, rResized, rQuality, rImage, rInput, rResult,
                   keys, files>>
    /\ UNCHANGED notReview

\* imageToBase64: ImageResizer.needsResize(imagePath); fs.stat rejects when
\* the file is not there
RNeedsResize ==
    /\ rpc = "encode"
    /\ IF ~Exists(files, rShot)
       THEN /\ ReviewFails("ENOENT: no such file or directory")
            /\ UNCHANGED <<rInput, rEncode>>
       ELSE /\ rInput' = files[rShot]
            /\ UNCHANGED rResult
            /\ IF needsResize(files[rShot])
               THEN rpc' = "resize" /\ UNCHANGED rEncode
               ELSE rpc' = "read" /\ rEncode' = rShot
    /\ UNCHANGED <<rKind, rUrl, rModel, rOut, rShot, rLaunches, rGotos, rBrowsers,
                   rPending, rResized, rQuality, rImage, keys, files, tm>>
    /\ UNCHANGED notReview

\* const tempPath = imagePath.replace(...)
TempPath(imagePath) == ResizedPath(imagePath)

\* ImageResizer.resizeForAPI(imagePath): scale, encode, lower the quality
\* while the buffer is too large, write the buffer to tempPath
RResize ==
    LET img == files[rShot]
        q == FinalQuality(img, StartQuality)
        tempPath == TempPath(rShot)
    IN
    /\ rpc = "resize"
    /\ rQuality' = q
    /\ files' = WriteFile(files, tempPath, ResizedImage(img, q))
    /\ rEncode' = tempPath
    /\ rResized' = tempPath
    /\ rpc' = "read"
    /\ UNCHANGED <<rKind, rUrl, rModel, rOut, rShot, rLaunches, rGotos, rBrowsers,
                   rPending, rImage, rInput, rResult, keys, tm>>
    /\ UNCHANGED notReview

\* resizeForAPI throws (no image dimensions, sharp cannot decode): resizedPath
\* is still unset, the finally block unlinks nothing
RResizeFail ==
    /\ rpc = "resize"
    /\ ReviewFails("Could not get image dimensions")
    /\ UNCHANGED <<rKind, rUrl, rModel, rOut, rShot, rLaunches, rGotos, rBrowsers,
                   rPending, rEncode, rResized, rQuality, rImage, rInput, keys,
                   files, tm>>
    /\ UNCHANGED notReview

\* fs.readFile(pathToEncode) and its base64; finally: unlink(resizedPath)
\* when a resized file was made. callAIAPI puts the base64 into the message
RRead ==
    /\ rpc = "read"
    /\ dpc[Caller] = "idle"
    /\ rImage' = files[rEncode]
    /\ files' = IF rResized # NoFilePath THEN Unlink(files, rResized) ELSE files
    /\ rpc' = "chat"
    /\ UNCHANGED <<rKind, rUrl, rModel, rOut, rShot, rLaunches, rGotos, rBrowsers,
                   rPending, rEncode, rResized, rQuality, rInput, rResult, keys, tm>>
    /\ UNCHANGED notReview

\* callAIAPI: this.aiService.chat(messages, {model}) starts
RChat ==
    /\ rpc = "chat"
    /\ ChatCheck(Caller, ChatModel(rModel), getServiceForModel(ChatModel(rModel)) \in keys)

\* chat has returned or thrown: parseResponse, saveAnalysis(result) of
\* reviewURL and the return, or the catch
RChatReturn ==
    /\ rpc = "chat"
    /\ dpc[Caller] = "done"
    /\ IF outcome[Caller].status = "ok"
       THEN /\ rpc' = "done"
            /\ rResult' = [error |-> NoError, status |-> "ok"]
            /\ tm' = IF rKind = "url" THEN saveAnalysis(tm, rUrl) ELSE tm
       ELSE /\ ReviewFails(outcome[Caller].error)
            /\ UNCHANGED tm
    /\ FinishLocals(Caller)
    /\ UNCHANGED <<rKind, rUrl, rModel, rOut, rShot, rLaunches, rGotos, rBrowsers,
                   rPending, rEncode, rResized, rQuality, rImage, rInput, keys, files>>
    /\ UNCHANGED <<captureVars, fallbackVars, batchVars, sessionVars, lineVars,
                   chatVars>>

\* the steps of a running review
ReviewSteps ==
    \/ RLaunchOk
    \/ \E e \in ErrorMessages : RLaunchFail(e)
    \/ RGotoOk
    \/ RGotoRelax
    \/ RGoto2Ok
    \/ \E e \in ErrorMessages : RGoto2Fail(e)
    \/ \E e \in ErrorMessages : RPageFail(e)
    \/ \E img \in CapturedImages : RShoot(img)
    \/ RStylesOk
    \/ RClose
    \/ \E e \in ErrorMessages : RCloseFail(e)
    \/ RSaveInfo
    \/ RNeedsResize
    \/ RResize
    \/ RResizeFail
    \/ RRead
    \/ RChat
    \/ rpc = "chat" /\ CheckSave(Caller)
    \/ rpc = "chat" /\ BackendResolve(Caller)
    \/ \E e \in BackendErrors : rpc = "chat" /\ BackendReject(Caller, e)
    \/ rpc = "chat" /\ IncLoad(Caller)
    \/ rpc = "chat" /\ IncSave(Caller)
    \/ RChatReturn

\* the screenshot file a user passes with --screenshot
UserShot(ext) == FilePath("cwd", "shot", 0, 0, ext)

\* the paths a caller of reviewURL passes as outputPath
OutputPaths == {NoFilePath, FilePath("cwd", "report", 0, 0, "md"),
                FilePath("cwd", "report", 0, 0, "html")}

\* the models a caller passes as options.model (none: the default model)
ReviewModels == {NoModel, "v0", "gpt-4-turbo", "claude-3-opus"}

\* the keys a reviewer is constructed with
KeySets == {{"v0"}, {"v0", "openai"}, Families}

\* no review has run yet
ReviewIdle ==
    /\ rpc = "idle"
    /\ rKind = "none"
    /\ rUrl = NoUrl
    /\ rModel = NoModel
    /\ rOut = NoFilePath
    /\ rShot = NoFilePath
    /\ rLaunches = 0
    /\ rGotos = 0
    /\ rBrowsers = 0
    /\ rPending = NoError
    /\ rEncode = NoFilePath
    /\ rResized = NoFilePath
    /\ rQuality = 0
    /\ rImage = NoImage
    /\ rInput = NoImage
    /\ rResult = NoReviewResult
    /\ tm = EmptySession

\* a reviewer of a fresh process, and the user's screenshot file on disk
ReviewInit ==
    /\ ReviewIdle
    /\ keys \in KeySets
    /\ \E ext \in ImageExts, img \in Images("user") :
           files = WriteFile(NoFiles, UserShot(ext), img)

\* no reviewer exists
ReviewParked ==
    /\ ReviewIdle
    /\ keys = {}
    /\ files = NoFiles

\* the quota file a review finds at time t: missing, or with every count at
\* its cap, or with every count one below its cap
ReviewQuotaAt(t) ==
    /\ now = t
    /\ ticks = 0
    /\ calls = 0
    /\ \/ fileExists = FALSE /\ qfile = NoData
       \/ /\ fileExists = TRUE
          /\ \E c \in {0, 1} :
                 qfile = [f \in Families |->
                            [count |-> limits(f).daily - c, resetAt |-> InitialResetAt(f)]]
    /\ dpc = [p \in Callers |-> "idle"]
    /\ model = [p \in Callers |-> "none"]
    /\ service = [p \in Callers |-> "none"]
    /\ hasClient = [p \in Callers |-> FALSE]
    /\ data = [p \in Callers |-> NoData]
    /\ nowAt = [p \in Callers |-> 0]
    /\ chk = [p \in Callers |-> NoLimitResult]
    /\ invoked = [p \in Callers |-> <<>>]
    /\ raised = [p \in Callers |-> NoError]
    /\ outcome = [p \in Callers |-> NoOutcome]
    /\ pre = [p \in Callers |-> NoPre]

\* a review started 2 s after the model's epoch
ReviewQuotaInit == ReviewQuotaAt(2000)

\* reviewer.reviewURL(url, {model: m, outputPath: out})
ReviewURL(url, m, out) ==
    /\ rpc = "idle"
    /\ StartReviewURL(url, m, out)
    /\ UNCHANGED notReview

\* reviewer.reviewScreenshot(path, {model: m})
ReviewScreenshot(path, m) ==
    /\ rpc = "idle"
    /\ StartReviewScreenshot(path, m)
    /\ UNCHANGED notReview

ReviewNext ==
    \/ \E url \in Urls, m \in ReviewModels, out \in OutputPaths : ReviewURL(url, m, out)
    \/ \E ext \in ImageExts, m \in ReviewModels : ReviewScreenshot(UserShot(ext), m)
    \/ ReviewSteps


(***************************************************************************)
(* Batch review: handleBatchReview of src/src/cli.ts                       *)
(***************************************************************************)

\* the sequences over S of length 1..n
SeqsUpTo(S, n) == UNION { [1..k -> S] : k \in 1..n }

\* the batch files: at least one URL (an empty file throws before the loop)
BatchFiles == SeqsUpTo(Urls, MaxUrls)

\* options.output ? options.output.replace(/\.md$/, `-${i + 1}.md`)
\*                : `batch-review-${i + 1}-${Date.now()}.md`
BatchOutputPath(output, i, stamp) ==
    IF output # NoFilePath
    THEN IF output.ext = "md" THEN [output EXCEPT !.index = i + 1] ELSE output
    ELSE FilePath("cwd", "batch-review", i + 1, stamp, "md")

\* the setTimeout of the loop, in ms
BatchDelay == 3000

BatchInit ==
    /\ bpc = "loop"
    /\ burls \in BatchFiles
    /\ bOutput \in OutputPaths
    /\ bi = 0
    /\ completed = 0
    /\ failed = 0
    /\ bStarted = <<>>
    /\ bEnded = <<>>
    /\ bWaited = 0
    /\ bGaps = <<>>

\* no batch runs
BatchParked ==
    /\ bpc = "off"
    /\ burls = <<>>
    /\ bOutput = NoFilePath
    /\ bi = 0
    /\ completed = 0
    /\ failed = 0
    /\ bStarted = <<>>
    /\ bEnded = <<>>
    /\ bWaited = 0
    /\ bGaps = <<>>

\* the reviewer of a batch run: the v0 key the CLI requires, nothing on disk
BatchReviewInit ==
    /\ ReviewIdle
    /\ keys = {"v0"}
    /\ files = NoFiles

\* loop head with i < urls.length: outputPath, and reviewURL is entered
BatchBegin ==
    /\ bpc = "loop"
    /\ bi < Len(burls)
    /\ rpc \in {"idle", "done"}
    /\ StartReviewURL(burls[bi + 1], NoModel, BatchOutputPath(bOutput, bi, now))
    /\ bpc' = "review"
    /\ bStarted' = Append(bStarted, burls[bi + 1])
    /\ bGaps' = IF bi > 0 THEN Append(bGaps, bWaited) ELSE bGaps
    /\ bWaited' = 0
    /\ UNCHANGED <<burls, bOutput, bi, completed, failed, bEnded>>
    /\ UNCHANGED <<quotaVars, notBatch>>

\* reviewURL returned: saveAnalysis(analysis, outputPath), completed++, and
\* the timer is started unless this was the last URL
BatchSave ==
    /\ bpc = "review"
    /\ rpc = "done"
    /\ rResult.status = "ok"
    /\ files' = WriteFile(files, rOut, ReportFile(rUrl))
    /\ completed' = completed + 1
    /\ bEnded' = Append(bEnded, "ok")
    /\ IF bi < Len(burls) - 1
       THEN bpc' = "wait" /\ bi' = bi
       ELSE bpc' = "loop" /\ bi' = bi + 1
    /\ UNCHANGED <<burls, bOutput, failed, bStarted, bWaited, bGaps>>
    /\ UNCHANGED <<rpc, rKind, rUrl, rModel, rOut, rShot, rLaunches, rGotos, rBrowsers,
                   rPending, rEncode, rResized, rQuality, rImage, rInput, rResult,
                   keys, tm>>
    /\ UNCHANGED <<quotaVars, notBatch>>

\* reviewURL returned and saveAnalysis threw: the catch of the loop body
BatchSaveFail ==
    /\ bpc = "review"
    /\ rpc = "done"
    /\ rResult.status = "ok"
    /\ failed' = failed + 1
    /\ bEnded' = Append(bEnded, "error")
    /\ bpc' = "loop"
    /\ bi' = bi + 1
    /\ UNCHANGED <<burls, bOutput, completed, bStarted, bWaited, bGaps>>
    /\ UNCHANGED <<reviewVars, quotaVars, notBatch>>

\* a loop that a throwing reviewURL ends
BatchReviewFailedStops ==
    /\ bpc = "review"
    /\ rpc = "done"
    /\ rResult.status = "error"
    /\ failed' = failed + 1
    /\ bEnded' = Append(bEnded, "error")
    /\ bpc' = "end"
    /\ bi' = bi + 1
    /\ UNCHANGED <<burls, bOutput, completed, bStarted, bWaited, bGaps>>
    /\ UNCHANGED <<reviewVars, quotaVars, notBatch>>

\* reviewURL threw: the catch of the loop body, then i++
BatchReviewFailed ==
    /\ bpc = "review"
    /\ rpc = "done"
    /\ rResult.status = "error"
    /\ failed' = failed + 1
    /\ bEnded' = Append(bEnded, "error")
    /\ bpc' = "loop"
    /\ bi' = bi + 1
    /\ UNCHANGED <<burls, bOutput, completed, bStarted, bWaited, bGaps>>
    /\ UNCHANGED <<reviewVars, quotaVars, notBatch>>

\* the 3 s timer fires, then i++
BatchWait ==
    /\ bpc = "wait"
    /\ bWaited' = bWaited + BatchDelay
    /\ bpc' = "loop"
    /\ bi' = bi + 1
    /\ UNCHANGED <<burls, bOutput, completed, failed, bStarted, bEnded, bGaps>>
    /\ UNCHANGED <<reviewVars, quotaVars, notBatch>>

\* loop head with i = urls.length: the summary box
BatchEnd ==
    /\ bpc = "loop"
    /\ bi = Len(burls)
    /\ bpc' = "end"
    /\ UNCHANGED <<burls, bOutput, bi, completed, failed, bStarted, bEnded,
                   bWaited, bGaps>>
    /\ UNCHANGED <<reviewVars, quotaVars, notBatch>>

BatchNext ==
    \/ BatchBegin
    \/ BatchSave
    \/ BatchSaveFail
    \/ BatchReviewFailed
    \/ BatchWait
    \/ BatchEnd
    \/ ReviewSteps


(***************************************************************************)
(* Interactive session: SimpleInteractiveSession of src/src/logger.ts      *)
(***************************************************************************)

\* what a user types after /url
UrlArgs == Urls \cup {"a.example"}

\* arg.startsWith('http')
StartsWithHttp(arg) == arg \in Urls

\* arg.startsWith('http') ? arg : `https://${arg}`
NormalizeUrl(arg) == IF StartsWithHttp(arg) THEN arg ELSE "https://" \o arg

\* what a user types after /model
ModelArgs == {"v0", "gpt-4", "gpt-4-turbo"}

\* validModels of setModel
validModels == {"v0", "gpt-4", "o3-mini", "claude-sonnet-4", "claude-3-opus",
                "claude-3-sonnet"}

\* MultiModelAIService.isModelAvailable of a service holding the keys ks
isModelAvailable(m, ks) ==
    CASE m = "v0" -> "v0" \in ks
      [] m \in {"gpt-4", "gpt-4-turbo", "gpt-3.5-turbo", "o3-mini"} -> "openai" \in ks
      [] m \in {"claude-3-opus", "claude-3-sonnet", "claude-3-haiku",
                "claude-sonnet-4"} -> "anthropic" \in ks
      [] OTHER -> FALSE

\* MultiModelAIService.getAvailableModels, as the set of its elements
getAvailableModels(ks) ==
    (IF "v0" \in ks THEN {"v0"} ELSE {})
    \cup (IF "openai" \in ks THEN {"gpt-4", "gpt-4-turbo", "gpt-3.5-turbo", "o3-mini"}
          ELSE {})
    \cup (IF "anthropic" \in ks
          THEN {"claude-3-opus", "claude-3-sonnet", "claude-3-haiku", "claude-sonnet-4"}
          ELSE {})

\* a screenshot of url that a review of this session saved is still on disk
SavedScreenshotFor(url) ==
    \E sh \in tm.screenshots : sh.url = url /\ Exists(files, sh.path)

\* the last command was not /review
NoLast ==
    [calls |-> 0, model |-> NoModel, outcome |-> "none", error |-> NoError,
     advice |-> NoAdvice, branch |-> "none", saved |-> FALSE]

SessionParked ==
    /\ spc = "off"
    /\ sMode = "remote"
    /\ sUrl = NoUrl
    /\ sModel = NoModel
    /\ sLastShot = NoFilePath
    /\ sReviews = 0
    /\ sLast = NoLast

\* the constructor, started with or without an initial URL
SessionInit ==
    /\ spc = "prompt"
    /\ sMode = "remote"
    /\ sUrl \in {NoUrl, NormalizeUrl("a.example")}
    /\ sModel = defaultModel
    /\ sLastShot = NoFilePath
    /\ sReviews = 0
    /\ sLast = NoLast

\* the reviewer and the service of a session: runSimpleInteractiveMode exits
\* without the v0 key; the temp directory is fresh
SessionReviewInit ==
    /\ ReviewIdle
    /\ keys \in {{"v0"}, {"v0", "openai"}}
    /\ files = NoFiles

\* /url <arg>
SUrl(arg) ==
    /\ spc = "prompt"
    /\ sUrl' = NormalizeUrl(arg)
    /\ sLast' = NoLast
    /\ UNCHANGED <<spc, sMode, sModel, sLastShot, sReviews>>
    /\ UNCHANGED <<reviewVars, quotaVars, notSession>>

\* /model <arg>: setModel
SModel(arg) ==
    /\ spc = "prompt"
    /\ sModel' = IF arg \in validModels /\ isModelAvailable(arg, keys) THEN arg ELSE sModel
    /\ sLast' = NoLast
    /\ UNCHANGED <<spc, sMode, sUrl, sLastShot, sReviews>>
    /\ UNCHANGED <<reviewVars, quotaVars, notSession>>

\* /local and /remote
SMode(mode) ==
    /\ spc = "prompt"
    /\ sMode' = mode
    /\ sLast' = NoLast
    /\ UNCHANGED <<spc, sUrl, sModel, sLastShot, sReviews>>
    /\ UNCHANGED <<reviewVars, quotaVars, notSession>>

\* review() is entered and takes the given branch
EnterReview(branch, ended) ==
    sLast' = [calls |-> calls, model |-> sModel, outcome |-> ended,
              error |-> NoError, advice |-> NoAdvice, branch |-> branch,
              saved |-> (sUrl # NoUrl /\ SavedScreenshotFor(sUrl))]

\* storedAnalysis && lastScreenshot && lastScreenshot.url === currentUrl
HasStored == tm.analysis # NoUrl /\ getLastScreenshot(tm, files).found
             /\ getLastScreenshot(tm, files).url = sUrl

\* lastScreenshot && lastScreenshot.url === currentUrl
HasLast == getLastScreenshot(tm, files).found /\ getLastScreenshot(tm, files).url = sUrl

\* /review with a stored analysis and the last screenshot of the current URL:
\* the stored analysis is shown
SReviewStored ==
    /\ spc = "prompt"
    /\ HasStored
    /\ EnterReview("stored", "shown")
    /\ sLastShot' = getLastScreenshot(tm, files).path
    /\ UNCHANGED <<spc, sMode, sUrl, sModel, sReviews>>
    /\ UNCHANGED <<reviewVars, quotaVars, notSession>>

\* /review with the last screenshot of the current URL: reviewScreenshot
SReviewReuse ==
    /\ spc = "prompt"
    /\ ~HasStored
    /\ HasLast
    /\ rpc = "idle"
    /\ sReviews < MaxReviews
    /\ sReviews' = sReviews + 1
    /\ EnterReview("reuse", "none")
    /\ StartReviewScreenshot(getLastScreenshot(tm, files).path, sModel)
    /\ spc' = "review"
    /\ UNCHANGED <<sMode, sUrl, sModel, sLastShot>>
    /\ UNCHANGED <<quotaVars, notSession>>

\* /review in remote mode with a current URL: reviewURL
SReviewCapture ==
    /\ spc = "prompt"
    /\ ~HasLast
    /\ sMode = "remote"
    /\ sUrl # NoUrl
    /\ rpc = "idle"
    /\ sReviews < MaxReviews
    /\ sReviews' = sReviews + 1
    /\ EnterReview("capture", "none")
    /\ StartReviewURL(sUrl, sModel, NoFilePath)
    /\ spc' = "review"
    /\ UNCHANGED <<sMode, sUrl, sModel, sLastShot>>
    /\ UNCHANGED <<quotaVars, notSession>>

\* /review with nothing to review: a message
SReviewNothing ==
    /\ spc = "prompt"
    /\ ~HasLast
    /\ ~(sMode = "remote" /\ sUrl # NoUrl)
    /\ EnterReview("nothing", "nothing")
    /\ UNCHANGED <<spc, sMode, sUrl, sModel, sLastShot, sReviews>>
    /\ UNCHANGED <<reviewVars, quotaVars, notSession>>

\* the locals of the review go away when reviewURL / reviewScreenshot has
\* returned or thrown
ReviewLocalsGone ==
    /\ rpc' = "idle"
    /\ rKind' = "none"
    /\ rUrl' = NoUrl
    /\ rModel' = NoModel
    /\ rOut' = NoFilePath
    /\ rShot' = NoFilePath
    /\ rLaunches' = 0
    /\ rGotos' = 0
    /\ rPending' = NoError
    /\ rEncode' = NoFilePath
    /\ rResized' = NoFilePath
    /\ rQuality' = 0
    /\ rImage' = NoImage
    /\ rInput' = NoImage
    /\ rResult' = NoReviewResult
    /\ UNCHANGED <<rBrowsers, keys, files, tm>>

\* the reviewer returned: state.lastScreenshot = result.screenshot; finally
SReviewReturn ==
    /\ spc = "review"
    /\ rpc = "done"
    /\ rResult.status = "ok"
    /\ sLastShot' = rShot
    /\ sLast' = [sLast EXCEPT !.outcome = "ok"]
    /\ spc' = "prompt"
    /\ ReviewLocalsGone
    /\ UNCHANGED <<sMode, sUrl, sModel, sReviews>>
    /\ UNCHANGED <<quotaVars, notSession>>

\* a catch that would go on with the suggested model
SReviewCatchSwitching ==
    LET advice == suggestFallback(rResult.error, sModel, getAvailableModels(keys))
    IN
    /\ spc = "review"
    /\ rpc = "done"
    /\ rResult.status = "error"
    /\ sLast' = [sLast EXCEPT !.outcome = "failed", !.error = rResult.error,
                              !.advice = advice]
    /\ sModel' = IF advice.model # NoModel THEN advice.model ELSE sModel
    /\ spc' = "prompt"
    /\ ReviewLocalsGone
    /\ UNCHANGED <<sMode, sUrl, sLastShot, sReviews>>
    /\ UNCHANGED <<quotaVars, notSession>>

\* the reviewer threw: the catch prints the error and what suggestFallback
\* suggests; finally
SReviewCatch ==
    LET advice == suggestFallback(rResult.error, sModel, getAvailableModels(keys))
    IN
    /\ spc = "review"
    /\ rpc = "done"
    /\ rResult.status = "error"
    /\ sLast' = [sLast EXCEPT !.outcome = "failed", !.error = rResult.error,
                              !.advice = advice]
    /\ spc' = "prompt"
    /\ ReviewLocalsGone
    /\ UNCHANGED <<sMode, sUrl, sModel, sLastShot, sReviews>>
    /\ UNCHANGED <<quotaVars, notSession>>

SessionNext ==
    \/ \E arg \in UrlArgs : SUrl(arg)
    \/ \E arg \in ModelArgs : SModel(arg)
    \/ \E mode \in {"local", "remote"} : SMode(mode)
    \/ SReviewStored
    \/ SReviewReuse
    \/ SReviewCapture
    \/ SReviewNothing
    \/ SReviewReturn
    \/ SReviewCatch
    \/ ReviewSteps


(***************************************************************************)
(* The 'line' listener: SimpleInteractiveSession of src/src/logger.ts and   *)
(* InteractiveV2Session.setupAutocomplete of src/unnamed/part_004           *)
(***************************************************************************)

\* the lines of one run
MaxLines == 5

LineInit ==
    /\ lSession \in {"simple", "v2"}
    /\ lStrict \in BOOLEAN
    /\ lAlive = TRUE
    /\ isProcessing = FALSE
    /\ lRunning = 0
    /\ lLast = "none"
    /\ lLog = <<>>

\* no session reads lines
LineParked ==
    /\ lSession = "off"
    /\ lStrict = FALSE
    /\ lAlive = FALSE
    /\ isProcessing = FALSE
    /\ lRunning = 0
    /\ lLast = "none"
    /\ lLog = <<>>

\* rl emits 'line': if (this.isProcessing) return; this.isProcessing = true;
\* handleInput(line.trim()) is called and runs to its first await
OnLine ==
    /\ lAlive
    /\ Len(lLog) < MaxLines
    /\ IF isProcessing
       THEN /\ lLog' = Append(lLog, "discarded")
            /\ UNCHANGED <<isProcessing, lRunning>>
       ELSE /\ lLog' = Append(lLog, "handled")
            /\ isProcessing' = TRUE
            /\ lRunning' = lRunning + 1
    /\ UNCHANGED <<lSession, lStrict, lAlive, lLast>>
    /\ UNCHANGED notLine

\* handleInput resolves: this.isProcessing = false, setPrompt, prompt
HandleInputReturns ==
    /\ lAlive
    /\ lRunning > 0
    /\ lRunning' = lRunning - 1
    /\ isProcessing' = FALSE
    /\ lLast' = "returned"
    /\ UNCHANGED <<lSession, lStrict, lAlive, lLog>>
    /\ UNCHANGED notLine

\* a listener that resets the flag in a finally in both sessions
HandleInputRejectsFinally ==
    /\ lAlive
    /\ lRunning > 0
    /\ lRunning' = lRunning - 1
    /\ isProcessing' = FALSE
    /\ lLast' = "threw"
    /\ lAlive' = ~lStrict
    /\ UNCHANGED <<lSession, lStrict, lLog>>
    /\ UNCHANGED notLine

\* handleInput rejects. logger.ts: the await throws out of the listener and
\* the assignment after it is skipped. part_004: the finally callback runs.
\* Nothing catches the rejection of the listener's promise: the runtime ends
\* the process or reports it and goes on
HandleInputRejects ==
    /\ lAlive
    /\ lRunning > 0
    /\ lRunning' = lRunning - 1
    /\ isProcessing' = IF lSession = "v2" THEN FALSE ELSE isProcessing
    /\ lLast' = "threw"
    /\ lAlive' = ~lStrict
    /\ UNCHANGED <<lSession, lStrict, lLog>>
    /\ UNCHANGED notLine

LineNext ==
    \/ OnLine
    \/ HandleInputReturns
    \/ HandleInputRejects


(***************************************************************************)
(* Design chat: DesignChatSession of src/src/enhanced-image-display.ts     *)
(***************************************************************************)

\* what a user types at the You: prompt
ChatInputs == {"make the header smaller"}

\* the model a design chat starts with
DesignChatModels == {"v0", "gpt-3.5-turbo", "claude-3-opus"}

\* MultiModelAIService.getModelCapabilities(m).supportsImages
supportsImages(m) ==
    m \in {"v0", "gpt-4", "gpt-4-turbo", "o3-mini", "claude-3-opus", "claude-3-sonnet",
           "claude-3-haiku", "claude-sonnet-4"}

ChatMessage(role, content, image) == [content |-> content, role |-> role, image |-> image]

\* the constructor without initialAnalysis, then start() up to the prompt
DesignChatInit ==
    /\ dcpc = "prompt"
    /\ messages = <<ChatMessage("system", "You are an AI design assistant", FALSE)>>
    /\ dcModel \in DesignChatModels
    /\ dcKeys \in {{"v0"}, {"v0", "openai"}}

\* no design chat runs
DesignChatParked ==
    /\ dcpc = "off"
    /\ messages = <<>>
    /\ dcModel = NoModel
    /\ dcKeys = {}

\* processChat up to its await: the user message is pushed, and the shallow
\* copy shares it, so the imageUrl set on the copy's last element is set on it
ProcessChat(input) ==
    /\ dcpc = "prompt"
    /\ dpc[Caller] = "idle"
    /\ calls < MaxCalls
    /\ messages' = Append(messages, ChatMessage("user", input, supportsImages(dcModel)))
    /\ dcpc' = "chat"
    /\ UNCHANGED <<dcModel, dcKeys>>
    /\ UNCHANGED <<quotaVars, notChat>>

\* a processChat whose catch takes the user message back
ProcessChatReturnPops ==
    /\ dcpc = "chat"
    /\ dpc[Caller] = "done"
    /\ messages' = IF outcome[Caller].status = "ok"
                   THEN Append(messages, ChatMessage("assistant", "response", FALSE))
                   ELSE SubSeq(messages, 1, Len(messages) - 1)
    /\ dcpc' = "prompt"
    /\ FinishLocals(Caller)
    /\ UNCHANGED <<dcModel, dcKeys>>
    /\ UNCHANGED notChat

\* processChat after its await: the assistant message is pushed, or the
\* catch prints the error
ProcessChatReturn ==
    /\ dcpc = "chat"
    /\ dpc[Caller] = "done"
    /\ messages' = IF outcome[Caller].status = "ok"
                   THEN Append(messages, ChatMessage("assistant", "response", FALSE))
                   ELSE messages
    /\ dcpc' = "prompt"
    /\ FinishLocals(Caller)
    /\ UNCHANGED <<dcModel, dcKeys>>
    /\ UNCHANGED notChat

\* /analyze (performDetailedAnalysis) and /tokens (extractDesignTokens) up to
\* their await
ChatCommand(cmd) ==
    /\ dcpc = "prompt"
    /\ dpc[Caller] = "idle"
    /\ calls < MaxCalls
    /\ dcpc' = cmd
    /\ UNCHANGED <<messages, dcModel, dcKeys>>
    /\ UNCHANGED <<quotaVars, notChat>>

\* what /analyze and /tokens push as the user's part
CommandText(cmd) ==
    IF cmd = "analyze" THEN "Perform detailed UI/UX analysis" ELSE "Extract design tokens"

\* /analyze and /tokens after their await: both messages are pushed, or the
\* catch prints the error
ChatCommandReturn ==
    /\ dcpc \in {"analyze", "tokens"}
    /\ dpc[Caller] = "done"
    /\ messages' = IF outcome[Caller].status = "ok"
                   THEN messages \o <<ChatMessage("user", CommandText(dcpc), FALSE),
                                      ChatMessage("assistant", "response", FALSE)>>
                   ELSE messages
    /\ dcpc' = "prompt"
    /\ FinishLocals(Caller)
    /\ UNCHANGED <<dcModel, dcKeys>>
    /\ UNCHANGED notChat

\* /model (switchModel): one of getAvailableModels() is chosen
SwitchModel(m) ==
    /\ dcpc = "prompt"
    /\ m \in getAvailableModels(dcKeys)
    /\ dcModel' = m
    /\ UNCHANGED <<dcpc, messages, dcKeys>>
    /\ UNCHANGED <<quotaVars, notChat>>

\* /exit
ChatExit ==
    /\ dcpc = "prompt"
    /\ dcpc' = "exit"
    /\ UNCHANGED <<messages, dcModel, dcKeys>>
    /\ UNCHANGED <<quotaVars, notChat>>

\* the model of the aiService.chat call that is awaited
AwaitedModel == IF dcpc = "analyze" THEN "v0" ELSE dcModel

\* an aiService.chat call of the session is awaited
Awaiting == dcpc \in {"chat", "analyze", "tokens"}

DesignChatNext ==
    \/ \E input \in ChatInputs : ProcessChat(input)
    \/ \E cmd \in {"analyze", "tokens"} : ChatCommand(cmd)
    \/ \E m \in Models : SwitchModel(m)
    \/ ChatExit
    \/ Awaiting /\ ChatCheck(Caller, AwaitedModel, getServiceForModel(AwaitedModel) \in dcKeys)
    \/ Awaiting /\ CheckSave(Caller)
    \/ Awaiting /\ BackendResolve(Caller)
    \/ \E e \in BackendErrors : Awaiting /\ BackendReject(Caller, e)
    \/ Awaiting /\ IncLoad(Caller)
    \/ Awaiting /\ IncSave(Caller)
    \/ ProcessChatReturn
    \/ ChatCommandReturn


(***************************************************************************)
(* Properties of the capture orchestrator                                  *)
(***************************************************************************)
\* the strategy list of the running source
Strategies == DEFAULT_RETRY_STRATEGIES(variant)

\* positions of captureWithRetry at which no capture attempt is in flight
BetweenAttempts == {"loop", "launch", "backoff", "returned", "thrown"}

\* C1: for every retry budget N >= 0 and every pattern of attempt failures, one
\* call of captureWithRetry makes at most N+1 capture attempts (browser
\* launches) before it returns or throws.
C1_AtMostRetriesPlusOneAttempts ==
    /\ launches <= retries + 1
    /\ Len(attempts) <= retries + 1
    /\ cpc \in {"returned", "thrown"} => launches = Len(attempts)

C1_Witness ==
    /\ cpc = "thrown"
    /\ retries >= 2
    /\ launches = retries + 1

\* C2: at most one browser instance is open at any time, and none is open
\* between attempts, during a backoff, or once captureWithRetry has returned a
\* path or thrown: every launched browser is closed before the next attempt
\* starts and before the function ends.
C2_BrowserAlwaysTornDown ==
    /\ browsers \in {0, 1}
    /\ cpc \in BetweenAttempts => browsers = 0

\* the first attempt failed after its settle wait (so after the launch), the
\* second one succeeded, and no browser is left
C2_Witness ==
    /\ cpc = "returned"
    /\ launches = 2
    /\ Len(attempts) = 2
    /\ elapsed = 2000 + BackoffDelay(0) + 5000
    /\ browsers = 0

\* C3: attempt index i uses strategies[min(i, strategies.length-1)]: attempts
\* 0..3 use the four strategies in list order, every later attempt repeats the
\* last strategy.
C3_StrategyClampedToLast ==
    /\ Len(Strategies) = 4
    /\ \A i \in 1..Len(attempts) :
          attempts[i].strategy = IF i <= 4 THEN Strategies[i] ELSE Strategies[4]
    /\ cpc \notin {"loop", "returned", "thrown", "backoff"} =>
          strategy = IF attempt + 1 <= 4 THEN Strategies[attempt + 1] ELSE Strategies[4]

C3_Witness ==
    /\ Len(attempts) >= 5
    /\ attempts[5].strategy = attempts[4].strategy
    /\ attempts[4].strategy # attempts[3].strategy

\* C4: if attempts 0..k-1 fail and attempt k succeeds, exactly k+1 attempts are
\* made, none after the successful one, and the returned path is the one written
\* by attempt k with strategy min(k, last).
C4_FirstSuccessIsReturned ==
    LET n == Len(attempts) IN
    /\ \A i \in 1..(n - 1) : ~attempts[i].ok
    /\ (n > 0 /\ attempts[n].ok) <=> cpc = "returned"
    /\ cpc = "returned" =>
          /\ n <= retries + 1
          /\ launches = n
          /\ Len(shots) >= 1
          /\ shots[Len(shots)].attempt = n - 1
          /\ shots[Len(shots)].strategy = Strategies[Min(n - 1, Len(Strategies) - 1) + 1].name
          /\ result = shots[Len(shots)].path
          /\ thrown = NoFailure

\* retries = 3, three failures, the fourth attempt (Minimal) succeeds
C4_Witness ==
    /\ cpc = "returned"
    /\ variant = "plain"
    /\ retries = 3
    /\ Len(attempts) = 4
    /\ Len(shots) = 1
    /\ shots[1].attempt = 3
    /\ shots[1].strategy = "Minimal"
    /\ result = shots[1].path

\* C5: when all retries+1 attempts fail, captureWithRetry throws and returns no
\* path; the message names retries+1 attempts and carries the message of the
\* error raised by the final attempt.
C5_ExhaustionReportsLastError ==
    LET n == Len(attempts) IN
    /\ (n = retries + 1 /\ ~attempts[n].ok) => (cpc \in {"loop", "thrown"} /\ result = NoPath)
    /\ cpc = "thrown" =>
          /\ n = retries + 1
          /\ \A i \in 1..n : ~attempts[i].ok
          /\ result = NoPath
          /\ thrown.attempts = retries + 1
          /\ thrown.last = attemptError
          /\ thrown.last = attempts[n].error
          /\ thrown.last \in ErrorMessages

C5_Witness ==
    /\ cpc = "thrown"
    /\ Len(attempts) >= 2
    /\ attempts[1].error # thrown.last


(***************************************************************************)
(* Properties of the dispatcher and the rate limiter                       *)
(***************************************************************************)
\* the count the quota file holds for family f (a missing file counts nothing)
StoredCount(f) == IF fileExists THEN qfile[f].count ELSE 0

\* what caller p's check found stored for the family of its model
PreOf(p) == pre[p].data[service[p]]

\* the stored reset timestamp of p's family had elapsed when p's check ran
WindowElapsedAtCheck(p) ==
    /\ dpc[p] # "idle"
    /\ pre[p].exists
    /\ nowAt[p] > PreOf(p).resetAt

\* p's family had no request left in its current window when p's check ran
ZeroRemainingAtCheck(p) ==
    /\ dpc[p] # "idle"
    /\ pre[p].exists
    /\ PreOf(p).count >= limits(service[p]).daily
    /\ nowAt[p] <= PreOf(p).resetAt

\* checkLimit of caller p has returned
Checked(p) == dpc[p] \notin {"idle", "checkSave"}

\* milliseconds of the unit formatResetTime reports in
UnitMs(u) == CASE u = "s" -> 1000 [] u = "m" -> 60 * 1000 [] u = "h" -> 60 * 60 * 1000
               [] OTHER -> 0

\* C6: starting from a quota file whose counts are within the caps (v0 200,
\* openai 10000, anthropic 1000), after any sequence of sequential chat calls
\* with arbitrary models, backend outcomes and clock advances every stored
\* count is still within its cap.
C6_CountWithinCap ==
    fileExists =>
        /\ qfile["v0"].count <= 200
        /\ qfile["openai"].count <= 10000
        /\ qfile["anthropic"].count <= 1000

\* a successful call has just taken the last request of a family
C6_Witness ==
    /\ dpc[Caller] = "done"
    /\ outcome[Caller].status = "ok"
    /\ PreOf(Caller).count = limits(service[Caller]).daily - 1
    /\ qfile[service[Caller]].count = limits(service[Caller]).daily

\* the record a window reset at time t leaves for family f
FreshWindow(f, t, c) == [count |-> c, resetAt |-> t + limits(f).window]

\* C7, state part: a checkLimit that finds the stored reset timestamp elapsed
\* sets the count to 0, stores resetAt = now + window (>= now) and reports the
\* call allowed with the full cap remaining.
C7_ResetState ==
    \A p \in Callers :
        WindowElapsedAtCheck(p) =>
            LET f == service[p] IN
            /\ dpc[p] = "checkSave" => data[p][f] = FreshWindow(f, nowAt[p], 0)
            /\ Checked(p) =>
                  /\ chk[p] = [remaining |-> limits(f).daily, allowed |-> TRUE,
                               hasResetIn |-> FALSE, resetIn |-> 0]
                  /\ qfile[f].resetAt >= nowAt[p]
                  /\ qfile[f] = FreshWindow(f, nowAt[p],
                                   IF dpc[p] = "done" /\ outcome[p].status = "ok"
                                   THEN 1 ELSE 0)

\* C7, step part: a stored resetAt changes, or a stored count drops, only when
\* a checkLimit that found the window elapsed writes its reset; never in a
\* clock step, never in increment.
C7_ResetStep ==
    \A f \in Families :
        (fileExists /\ (qfile'[f].resetAt # qfile[f].resetAt
                        \/ qfile'[f].count < qfile[f].count))
        => \E p \in Callers :
              /\ dpc[p] = "checkSave"
              /\ dpc'[p] # "checkSave"
              /\ service[p] = f
              /\ WindowElapsedAtCheck(p)

\* C7: whenever checkLimit is called for a family after its stored reset
\* timestamp has elapsed, it sets the count to 0, stores resetAt = now + window
\* and reports the call allowed with the full cap remaining; the reset happens
\* only on such a quota query, never by itself and never in increment.
C7_LazyWindowReset == [] C7_ResetState /\ [][C7_ResetStep]_vars

\* an elapsed window with a used count has been reset by a check
C7_Witness ==
    /\ dpc[Caller] = "backend"
    /\ WindowElapsedAtCheck(Caller)
    /\ PreOf(Caller).count > 0
    /\ qfile[service[Caller]].count = 0
    /\ qfile[service[Caller]].resetAt = now + limits(service[Caller]).window

\* C8 as stated: one chat call changes the stored count of the model's family
\* by exactly 1 when the backend call succeeded and by 0 when the call failed,
\* and a failure is propagated to the caller.
C8_CountChangesByOneOrZero ==
    \A p \in Callers :
        dpc[p] = "done" =>
            /\ StoredCount(service[p]) =
                  PreOf(p).count + (IF outcome[p].status = "ok" THEN 1 ELSE 0)
            /\ outcome[p].status = "error" => outcome[p].error = raised[p]

\* C8 as the code has it: one chat call increments the stored count of the
\* model's family exactly once when the backend call succeeded and not at all
\* when the call failed -- counted from the count the call's own quota check
\* left (0 when that check reset an elapsed window, the stored count
\* otherwise) -- and a failure is propagated to the caller.
C8_IncrementedOnceOnSuccess ==
    \A p \in Callers :
        dpc[p] = "done" =>
            LET base == IF WindowElapsedAtCheck(p) THEN 0 ELSE PreOf(p).count IN
            /\ outcome[p].status \in {"ok", "error"}
            /\ StoredCount(service[p]) =
                  base + (IF outcome[p].status = "ok" THEN 1 ELSE 0)
            /\ outcome[p].status = "error" =>
                  outcome[p].error = raised[p] /\ raised[p] # NoError
            /\ outcome[p].status = "ok" => raised[p] = NoError /\ Len(invoked[p]) = 1

\* a successful call whose check reset an exhausted window: the count is 1
C8_Witness ==
    /\ dpc[Caller] = "done"
    /\ outcome[Caller].status = "ok"
    /\ WindowElapsedAtCheck(Caller)
    /\ PreOf(Caller).count = limits(service[Caller]).daily
    /\ qfile[service[Caller]].count = 1

\* C9: if the family of the requested model has zero requests remaining in its
\* current window, chat fails with a rate-limit error that reports the time
\* until the reset (rounded up to the unit it is printed in), and no backend
\* call is made; chat raises that error in no other case.
C9_NoBackendCallWithoutQuota ==
    \A p \in Callers :
        /\ ZeroRemainingAtCheck(p) =>
              LET ms == PreOf(p).resetAt - nowAt[p]
                  t == outcome[p].resets
              IN
              /\ dpc[p] = "done"
              /\ invoked[p] = <<>>
              /\ outcome[p].status = "error"
              /\ outcome[p].error = "Rate limit exceeded"
              /\ outcome[p].service = service[p]
              /\ t.unit \in {"s", "m", "h"}
              /\ (t.n - 1) * UnitMs(t.unit) < ms
              /\ ms <= t.n * UnitMs(t.unit)
        /\ (dpc[p] = "done" /\ outcome[p].error = "Rate limit exceeded") =>
              ZeroRemainingAtCheck(p)

\* v0 is exhausted for hours to come and the call was refused
C9_Witness ==
    /\ dpc[Caller] = "done"
    /\ ZeroRemainingAtCheck(Caller)
    /\ service[Caller] = "v0"
    /\ outcome[Caller].resets = [n |-> 24, unit |-> "h"]
    /\ invoked[Caller] = <<>>

\* C10: whenever the stored count has reached the cap and the current time has
\* not passed the stored resetAt, checkLimit returns allowed=false, remaining=0
\* and resetIn = the seconds until resetAt, rounded up and never negative, and
\* leaves the stored quota data unchanged; whenever it returns allowed=true it
\* returns no resetIn.
C10_DeniedCheckReportsSecondsToReset ==
    \A p \in Callers :
        /\ ZeroRemainingAtCheck(p) =>
              LET ms == PreOf(p).resetAt - nowAt[p] IN
              /\ Checked(p)
              /\ ~chk[p].allowed
              /\ chk[p].remaining = 0
              /\ chk[p].hasResetIn
              /\ chk[p].resetIn >= 0
              /\ (chk[p].resetIn - 1) * 1000 < ms
              /\ ms <= chk[p].resetIn * 1000
              /\ fileExists
              /\ qfile = pre[p].data
        /\ (Checked(p) /\ chk[p].allowed) => ~chk[p].hasResetIn

\* a denied check whose time to the reset is not a whole number of seconds
C10_Witness ==
    /\ Checked(Caller)
    /\ ZeroRemainingAtCheck(Caller)
    /\ (PreOf(Caller).resetAt - nowAt[Caller]) % 1000 # 0
    /\ chk[Caller].resetIn = 2


\* C20: after a failed attempt with index i, captureWithRetry waits exactly
\* (i + 1) * 2000 ms before the next attempt when attempts remain (i < retries);
\* it does not wait after the final failed attempt nor after a success.
C20_LinearBackoffBetweenAttempts ==
    /\ \A k \in 1..Len(backoffs) :
           /\ backoffs[k] = k * 2000
           /\ k <= retries
           /\ k <= Len(attempts)
           /\ ~attempts[k].ok
    /\ Len(backoffs) = IF cpc = "backoff" THEN attempt ELSE Min(attempt, retries)
    /\ cpc = "backoff" => attempt < retries /\ ~attempts[Len(attempts)].ok
    /\ cpc \in {"returned", "thrown"} => Len(backoffs) = Len(attempts) - 1

\* three attempts failed with retries = 2: two waits, none after the last one
C20_Witness ==
    /\ cpc = "thrown"
    /\ retries = 2
    /\ Len(attempts) = 3
    /\ backoffs = <<2000, 4000>>

\* page.goto of the running attempt is seen to have rejected in this step
NavigationRejected == navSeen' # navSeen /\ navSeen'.error # NoError

\* what follows a rejected page.goto
C21_NavigationErrorStep ==
    NavigationRejected =>
        IF navSeen'.text
        THEN cpc' = AfterGoto /\ pending' = NoError
        ELSE cpc' = "close" /\ pending' = navSeen'.error

\* C21: when page.goto raises an error and the page shows text content, the
\* attempt goes on towards the screenshot with the same strategy; when it
\* raises an error and the page has no text content, the attempt fails with
\* that navigation error.
C21_PartialRenderTolerated == [][C21_NavigationErrorStep]_vars

\* the strategy of the last resort
LastStrategy == Strategies[Len(Strategies)]

\* C22 as stated: the final strategy of the list is the most permissive one,
\* its fixed settle wait being the longest: no strategy waits longer than the
\* last one.
C22_LastStrategyWaitsLongest ==
    \A i \in 1..Len(Strategies) : Strategies[i].waitTime <= LastStrategy.waitTime

\* C22: the settle wait grows over the strategies before the last one, the
\* one before the last waiting longest of all; the last strategy requires
\* only the load event and waits less than the two before it and more than
\* the first. An attempt waits the settle wait of the strategy it runs.
C22_LongestWaitBeforeLast ==
    LET n == Len(Strategies) IN
    /\ \A i \in 1..(n - 1) : \A j \in 1..i :
           Strategies[j].waitTime <= Strategies[i].waitTime
    /\ \A i \in 1..n : Strategies[i].waitTime <= Strategies[n - 1].waitTime
    /\ LastStrategy.waitUntil = <<"load">>
    /\ LastStrategy.waitTime > Strategies[1].waitTime
    /\ \A i \in 2..(n - 1) : LastStrategy.waitTime < Strategies[i].waitTime
    /\ cpc \in {"settle", "scroll", "shot"} =>
           strategy.waitTime = Strategies[Min(attempt, n - 1) + 1].waitTime

\* the last strategy runs and its settle wait is over
C22_Witness ==
    /\ cpc = "scroll"
    /\ attempt = Len(Strategies) - 1
    /\ strategy = LastStrategy
    /\ strategy.waitTime < Strategies[Len(Strategies) - 1].waitTime

\* C25: every model identifier maps to exactly one quota family, and the
\* family whose quota a chat call checks and increments is the family of the
\* backend the call invokes for its model: v0 for v0, openai for the four
\* GPT/o3 models, anthropic for the four Claude models.
C25_QuotaFamilyIsBackendFamily ==
    /\ \A m \in Models : getServiceForModel(m) \in Families
    /\ \A m \in AIModels : getServiceForModel(m) = BackendFor(m)
    /\ getServiceForModel("v0") = "v0"
    /\ \A m \in {"gpt-4", "gpt-4-turbo", "gpt-3.5-turbo", "o3-mini"} :
           getServiceForModel(m) = "openai"
    /\ \A m \in {"claude-3-opus", "claude-3-sonnet", "claude-3-haiku",
                 "claude-sonnet-4"} : getServiceForModel(m) = "anthropic"
    /\ \A p \in Callers :
           dpc[p] # "idle" =>
               /\ service[p] = getServiceForModel(model[p])
               /\ \A k \in 1..Len(invoked[p]) :
                      /\ model[p] \in AIModels
                      /\ invoked[p][k] = service[p]
               /\ (dpc[p] = "done" /\ outcome[p].status = "ok") =>
                      /\ invoked[p] = <<service[p]>>
                      /\ StoredCount(service[p]) =
                            (IF WindowElapsedAtCheck(p) THEN 0 ELSE PreOf(p).count) + 1

\* an o3-mini call went to the OpenAI backend and was counted against openai
C25_Witness ==
    /\ dpc[Caller] = "done"
    /\ outcome[Caller].status = "ok"
    /\ model[Caller] = "o3-mini"
    /\ invoked[Caller] = <<"openai">>
    /\ service[Caller] = "openai"
    /\ StoredCount("openai") = PreOf(Caller).count + 1

\* the quota file is written in this step
FileWritten == qfile' # qfile \/ fileExists' # fileExists

\* what a write of the running call does to the families other than its own
C24_OtherFamiliesStep ==
    FileWritten =>
        \A g \in Families \ {service[Caller]} :
            qfile'[g] = IF fileExists THEN qfile[g] ELSE EmptyData(now)[g]

\* C24: the quota families are independent: a checkLimit, with or without a
\* window reset, and an increment for one family leave the stored count and
\* resetAt of the two other families as they were; when no file existed the
\* write stores for them what loadData reads in that case, count 0 in a
\* window opened at the time of the load.
C24_FamiliesIndependent == [][C24_OtherFamiliesStep]_vars

\* a window reset and an increment of openai have been stored, and v0 and
\* anthropic are as earlier runs left them
C24_Witness ==
    /\ dpc[Caller] = "done"
    /\ outcome[Caller].status = "ok"
    /\ service[Caller] = "openai"
    /\ WindowElapsedAtCheck(Caller)
    /\ qfile["openai"].count = 1
    /\ \A g \in {"v0", "anthropic"} :
           /\ qfile[g].resetAt = InitialResetAt(g)
           /\ qfile[g].count = limits(g).daily - 1

\* both callers' chat calls have returned a response, for the same family
BothSucceeded ==
    /\ \A p \in Callers : dpc[p] = "done" /\ outcome[p].status = "ok"
    /\ \A p, q \in Callers : service[p] = service[q]

\* the count p's call started from: 0 when its check found an elapsed window
\* or no file, the stored count otherwise
CountAtCheck(p) == IF WindowElapsedAtCheck(p) THEN 0 ELSE PreOf(p).count

\* the lowest count a call of the two started from
CountBefore == CHOOSE c \in {CountAtCheck(p) : p \in Callers} :
                   \A p \in Callers : c <= CountAtCheck(p)

\* C23: the quota file is read, modified and written back without a lock, so
\* two concurrent calls on one family can lose an update: when both have
\* succeeded the stored count is higher by 2 or by only 1, and the state in
\* which it is higher by only 1 is reachable.
C23_TwoCallsRaiseCountByOneOrTwo ==
    BothSucceeded =>
        qfile[service[Caller]].count - CountBefore \in {1, 2}

\* two successful calls and one increment stored
C23_Witness ==
    /\ BothSucceeded
    /\ \A p \in Callers : CountAtCheck(p) = CountBefore
    /\ qfile[service[Caller]].count = CountBefore + 1

(***************************************************************************)
(* Properties of the model fallback                                        *)
(***************************************************************************)
\* the models of the priority list
InOrder == {fallbackOrder[i] : i \in 1..Len(fallbackOrder)}

\* the place of a listed model in the priority list
Pos(m) == CHOOSE i \in 1..Len(fallbackOrder) : fallbackOrder[i] = m

\* the available models listed after / before the current one
AfterCurrent == {m \in fbAvailable \cap InOrder : Pos(m) > Pos(fbCurrent)}

BeforeCurrentOnes == {m \in fbAvailable \cap InOrder : Pos(m) < Pos(fbCurrent)}

\* the most preferred model of a non-empty set of listed models
First(S) == CHOOSE m \in S : \A n \in S : Pos(m) <= Pos(n)

\* C11: getNextModel is total: for every current model and every non-empty
\* available set other than {current} it returns a model of the available set
\* that differs from current; for the empty set and for {current} it returns
\* none.
C11_NextFallbackTotal ==
    fbpc = "next" =>
        IF fbAvailable # {} /\ fbAvailable # {fbCurrent}
        THEN fbNext \in fbAvailable \ {fbCurrent}
        ELSE fbNext = NoModel

\* C12: for a current model of the priority list, getNextModel returns the
\* first available model after current in list order; when none lies after
\* current, the first available model before current; it never returns current
\* nor a model that is not available.
C12_NextInPriorityOrder ==
    (fbpc = "next" /\ fbCurrent \in InOrder) =>
        /\ fbNext # fbCurrent
        /\ fbNext \in fbAvailable \cup {NoModel}
        /\ AfterCurrent # {} => fbNext = First(AfterCurrent)
        /\ (AfterCurrent = {} /\ BeforeCurrentOnes # {}) => fbNext = First(BeforeCurrentOnes)
        /\ (AfterCurrent = {} /\ BeforeCurrentOnes = {}) => fbNext = NoModel

\* the search wrapped around: nothing after o3-mini is available, and of the
\* models before it only gpt-4 is
C12_Witness ==
    /\ fbpc = "next"
    /\ fbCurrent = "o3-mini"
    /\ fbAvailable = {"gpt-4", "o3-mini", "gpt-3.5-turbo"}
    /\ fbNext = "gpt-4"

(***************************************************************************)
(* Properties of a review                                                  *)
(***************************************************************************)
\* the review has ended, by returning or by throwing
ReviewEnded == rpc = "done"

\* the review threw an error of the browser: its capture failed
CaptureFailed ==
    /\ ReviewEnded
    /\ rKind = "url"
    /\ rResult.status = "error"
    /\ rResult.error \in ErrorMessages

\* the attempts of a capture with the default retries: retries + 1
DefaultAttempts == 4

\* C16: a review never destroys the image it reviews: when imageToBase64 has
\* run on a file, then after the review has ended that file still exists with
\* the content it had, whatever its extension and whether or not it was
\* resized.
C16_OriginalScreenshotPreserved ==
    (ReviewEnded /\ rInput # NoImage) =>
        /\ Exists(files, rShot)
        /\ files[rShot] = rInput

\* C19: reviewURL obtains its screenshot from the capture orchestrator: a
\* review whose capture failed has made retries + 1 capture attempts (4 by
\* default), one browser launch each.
C19_ReviewCaptureRetries ==
    CaptureFailed => rLaunches = DefaultAttempts

(***************************************************************************)
(* Properties of batch review                                              *)
(***************************************************************************)

\* the reviews of the batch were started in file order
StartedInFileOrder ==
    /\ Len(bStarted) <= Len(burls)
    /\ \A k \in 1..Len(bStarted) : bStarted[k] = burls[k]

\* at most one review runs, and it is the last one started
OneReviewAtATime == Len(bStarted) - Len(bEnded) \in {0, 1}

\* C15: batch review takes the URLs one after another in file order, a
\* review starting only after the previous one has ended, and between the end
\* of every review and the start of the next one the 3-second delay has
\* elapsed, whether the previous review succeeded or failed.
C15_BatchSequentialWithDelay ==
    /\ StartedInFileOrder
    /\ OneReviewAtATime
    /\ \A k \in 1..Len(bGaps) : bGaps[k] = BatchDelay

\* the number of reviews of the batch that ended as e
EndedAs(e) == Cardinality({k \in 1..Len(bEnded) : bEnded[k] = e})

\* C27: in batch review a failing URL does not stop the batch: every URL of
\* the file is reviewed exactly once in file order, and when the batch ends
\* the completed count plus the failed count is the number of URLs.
C27_BatchReviewsEveryUrlOnce ==
    /\ StartedInFileOrder
    /\ completed = EndedAs("ok")
    /\ failed = EndedAs("error")
    /\ bpc = "end" =>
           /\ bStarted = burls
           /\ Len(bEnded) = Len(burls)
           /\ completed + failed = Len(burls)

\* a batch of two URLs has ended: the first failed, the second was reviewed
C27_Witness ==
    /\ bpc = "end"
    /\ Len(burls) = 2
    /\ bEnded = <<"error", "ok">>
    /\ completed = 1
    /\ failed = 1

\* the report files on disk
ReportPaths == {q \in DOMAIN files : files[q].kind = "report"}

\* C28: in batch review no two URLs write to the same report path, for every
\* value of the --output option: each successfully reviewed URL keeps its own
\* report file, and no report file has taken the place of another URL's
\* report or of a screenshot.
C28_BatchReportsKeptApart ==
    /\ Cardinality(ReportPaths) = completed
    /\ \A sh \in tm.screenshots :
           Exists(files, sh.path) => files[sh.path].kind = "image"

(***************************************************************************)
(* Properties of the interactive session                                   *)
(***************************************************************************)

\* the chat calls started since the last /review was entered
CallsOfReview == calls - sLast.calls

\* the last /review ended in the catch
ReviewFailed == spc = "prompt" /\ sLast.outcome = "failed"

C14_AutomaticFallback ==
    ~ /\ ReviewFailed
      /\ sLast.error \in BackendErrors
      /\ \E m \in getAvailableModels(keys) : m # sLast.model

\* C18: whenever a screenshot saved for the current URL exists, /review
\* reuses it (it shows the stored analysis or reviews the saved file) and
\* launches no browser; it captures only when no saved screenshot is of the
\* current URL.
C18_ReviewReusesSavedScreenshot ==
    /\ sLast.saved => sLast.branch \in {"stored", "reuse"}
    /\ sLast.branch = "capture" => ~sLast.saved
    /\ (spc = "review" /\ sLast.branch = "reuse") => rLaunches = 0

\* C26: whenever /review reports a cached analysis for the current URL, the
\* analysis it shows was produced by a review of that URL, after any sequence
\* of /url changes and of successful or failed reviews in the session.
C26_CachedAnalysisIsOfCurrentUrl ==
    (spc = "prompt" /\ sLast.branch = "stored") => tm.analysis = sUrl

(***************************************************************************)
(* Properties of the 'line' listener and of the design chat                *)
(***************************************************************************)

\* C29: in the interactive sessions at most one input line is being handled
\* at any time: a line that arrives while a previous line is still being
\* processed is discarded, and the processing flag is cleared again after the
\* handler ends, including when the handler throws.
C29_OneLineAtATime ==
    lAlive =>
        /\ lRunning \in {0, 1}
        /\ isProcessing <=> lRunning = 1

\* every user message of the history has its reply behind it
EveryUserMessageAnswered ==
    \A k \in 1..Len(messages) :
        messages[k].role = "user" =>
            k < Len(messages) /\ messages[k + 1].role = "assistant"

\* C30: in a design chat session the history only grows by appending, and a
\* chat turn whose AI call fails leaves the history as it was before the
\* turn, so that between turns every user message of the history is followed
\* by its assistant reply.
C30_FailedTurnLeavesHistory == dcpc = "prompt" => EveryUserMessageAnswered

\* the history only grows by appending
HistoryAppendOnly ==
    [][/\ Len(messages') >= Len(messages)
       /\ SubSeq(messages', 1, Len(messages)) = messages]_vars

(***************************************************************************)
(* Specifications                                                          *)
(***************************************************************************)
\* one call of captureWithRetry
Init == CaptureInit /\ QuotaParked /\ FallbackParked /\ ReviewParked /\ BatchParked
    /\ SessionParked /\ LineParked /\ DesignChatParked

Next == CaptureNext

Spec == Init /\ [][Next]_vars

\* chat calls made one after the other against one quota file
SequentialInit ==
    QuotaInit /\ CaptureParked /\ FallbackParked /\ ReviewParked /\ BatchParked
    /\ SessionParked /\ LineParked /\ DesignChatParked

SpecSequential == SequentialInit /\ [][SequentialNext]_vars

\* calls of the model fallback on every current model and availability set
FallbackSpecInit ==
    FallbackInit /\ CaptureParked /\ QuotaParked /\ ReviewParked /\ BatchParked
    /\ SessionParked /\ LineParked /\ DesignChatParked

SpecFallback == FallbackSpecInit /\ [][FallbackNext]_vars

\* one review of a URL or of a screenshot file
ReviewSpecInit ==
    ReviewInit /\ ReviewQuotaInit /\ CaptureParked /\ FallbackParked /\ BatchParked
    /\ SessionParked /\ LineParked /\ DesignChatParked

SpecReview == ReviewSpecInit /\ [][ReviewNext]_vars


\* a batch run of `v0-review --batch urls.txt`
BatchSpecInit ==
    /\ BatchInit
    /\ BatchReviewInit
    /\ \E t \in {2000, limits("v0").window + 2000} : ReviewQuotaAt(t)
    /\ CaptureParked
    /\ FallbackParked
    /\ SessionParked
    /\ LineParked
    /\ DesignChatParked

SpecBatch == BatchSpecInit /\ [][BatchNext]_vars

\* an interactive session, with no quota file or with every quota used up
SessionSpecInit ==
    /\ SessionInit
    /\ SessionReviewInit
    /\ ReviewQuotaInit
    /\ fileExists => \A f \in Families : qfile[f].count = limits(f).daily
    /\ CaptureParked
    /\ FallbackParked
    /\ BatchParked
    /\ LineParked
    /\ DesignChatParked

SpecSession == SessionSpecInit /\ [][SessionNext]_vars

\* two concurrent chat calls
ConcurrentInit ==
    /\ ReviewQuotaInit
    /\ CaptureParked
    /\ FallbackParked
    /\ ReviewParked
    /\ BatchParked
    /\ SessionParked
    /\ LineParked
    /\ DesignChatParked

SpecConcurrent == ConcurrentInit /\ [][ConcurrentNext]_vars

\* the lines a user types into an interactive session
LineSpecInit ==
    /\ LineInit
    /\ CaptureParked
    /\ QuotaParked
    /\ FallbackParked
    /\ ReviewParked
    /\ BatchParked
    /\ SessionParked
    /\ DesignChatParked

SpecLines == LineSpecInit /\ [][LineNext]_vars

\* a design chat session
DesignChatSpecInit ==
    /\ DesignChatInit
    /\ ReviewQuotaInit
    /\ CaptureParked
    /\ FallbackParked
    /\ ReviewParked
    /\ BatchParked
    /\ SessionParked
    /\ LineParked

SpecDesignChat == DesignChatSpecInit /\ [][DesignChatNext]_vars

====
